---- MODULE Spec2Model ----
(***************************************************************************)
(* Verification model of the collection engine (src/src/collection.cpp)    *)
(* and of the analytics manager (src/src/analytics_manager.cpp).           *)
(*                                                                         *)
(* The module holds one group of variables per subsystem and one           *)
(* specification per subsystem:                                            *)
(*   SpecStore    document store keys and seq_id allocation                *)
(*   SpecLock     Collection::mutex and the reference edges                *)
(*   SpecAlter    schema alter                                             *)
(*   SpecRate     per-IP rate limiting of analytics events                 *)
(*   SpecCurate   overrides and the curation of one search request         *)
(*   SpecCascade  cascade delete over array reference fields               *)
(*   SpecSingular cascade delete over singular reference fields            *)
(*   SpecAsync    async references: back-fill, updates, cascade delete     *)
(*   SpecUnion    union search: sort_by agreement and search cutoff         *)
(*   SpecFlush    analytics background loop, stop and event flush          *)
(***************************************************************************)
EXTENDS Integers, Sequences, FiniteSets, TLC

(***************************************************************************)
(* Bounds of the model (not program constants).                            *)
(***************************************************************************)
\* allocation of seq_ids stops once next_seq_id reaches this value
MaxSeqId == 2

\* the largest number of alter requests in one behaviour
MaxAlters == 3

\* the largest number of alter requests recorded in one behaviour of SpecHistory
MaxRecorded == 7

\* the largest number of destinations query_collection_mapping lists for one
\* source collection
MaxMapped == 2

\* the clock stops advancing at this time (seconds)
MaxTime == 120

\* the largest number of events that pass the rate limiter in one behaviour
MaxEvents == 4

(***************************************************************************)
(* State: one group of variables per subsystem.                            *)
(***************************************************************************)
\* document store: Collection::to_doc, get_next_seq_id, batch_index, remove_document
VARIABLES
    next_seq_id,     \* Collection::next_seq_id, the in-memory counter
    store_next_seq,  \* the persisted counter under get_next_seq_id_key(name)
    doc_id_keys,     \* store keys {collection_id}_D_{doc_id} -> seq_id
    seq_id_keys,     \* store keys {collection_id}_S_{seq_id} -> document (its id)
    w_pc,            \* position of each writer thread
    w_doc,           \* the doc id the writer works on
    w_seq,           \* the seq_id of the writer's index_record
    w_upd,           \* index_record.is_update
    allocated        \* seq_ids in the order get_next_seq_id returned them

storeVars == <<next_seq_id, store_next_seq, doc_id_keys, seq_id_keys,
               w_pc, w_doc, w_seq, w_upd, allocated>>

\* Collection::mutex and the reference edges it guards
VARIABLES
    lk_writer,       \* the thread holding Collection::mutex exclusively, or "none"
    lk_readers,      \* the threads holding Collection::mutex shared
    t_pc,            \* position of each thread: "idle", "wait", "locked"
    t_op,            \* the member function the thread runs
    t_arg,           \* the referencing collection the call names
    referenced_in    \* Collection::referenced_in: the collections referencing this one

lockVars == <<lk_writer, lk_readers, t_pc, t_op, t_arg, referenced_in>>

\* schema alter: Collection::alter, validate_alter_payload, batch_alter_data
VARIABLES
    search_schema,      \* Collection::search_schema: the names of the schema's fields
    embedding_fields,   \* Collection::embedding_fields: the names of the embedding fields
    index_fields,       \* the in-memory index: the <<seq_id, field>> pairs it holds
    stored_docs,        \* the stored documents: seq_id -> the fields the document carries
    alter_in_progress,  \* Collection::alter_in_progress
    validated_docs,     \* Collection::validated_docs
    altered_docs,       \* Collection::altered_docs
    alter_history,      \* Collection::alter_history: timestamp and success of each entry
    a_pc,               \* position of the alter request
    a_payload,          \* alter_payload["fields"]
    a_fields,           \* addition_fields, reindex_fields, del_fields, update_fields
    a_second,           \* the second batch_alter_data call (reindex_fields) is running
    a_before,           \* schema, index and documents when the request entered alter
    a_result            \* how the last alter request returned

alterVars == <<search_schema, embedding_fields, index_fields, stored_docs,
               alter_in_progress, validated_docs, altered_docs, alter_history,
               a_pc, a_payload, a_fields, a_second, a_before, a_result>>

\* analytics events: AnalyticsManager::add_event rate limiting
VARIABLES
    now_ts_seconds,              \* the system clock, in seconds
    analytics_minute_rate_limit, \* AnalyticsManager::analytics_minute_rate_limit
    events_cache,                \* AnalyticsManager::events_cache: client_ip -> event_cache_t
    accepted,                    \* client_ip -> the times of the events that passed the limiter
    ev_result                    \* the client and the outcome of the last add_event call

rateVars == <<now_ts_seconds, analytics_minute_rate_limit, events_cache, accepted, ev_result>>

\* curation: Collection::overrides, curate_results, process_filter_overrides
VARIABLES
    overrides,       \* Collection::overrides: override id -> override_t
    override_tags,   \* Collection::override_tags: tag -> the ids of the overrides carrying it
    override_store,  \* the override ids whose key is in the store
    cur_phase,       \* position of the search request: "idle", "curated", "filtered"
    cur_hidden,      \* the hidden_hits of the request
    cur              \* included_ids, excluded_ids, filter_overrides and what produced them

curateVars == <<overrides, override_tags, override_store, cur_phase, cur_hidden, cur>>

\* reference cascade: Collection::remove_document, cascade_remove_docs
VARIABLES
    ref_docs,        \* the referenced collection: seq_id -> value of the referenced field
    ref_next_seq_id, \* the seq_id its next document gets
    p_docs,          \* the referencing documents: id -> reference field, helper field
    async_result     \* per async referencing document: outcome of the last back-fill

cascadeVars == <<ref_docs, ref_next_seq_id, p_docs, async_result>>

\* union search: Collection::do_union
VARIABLES
    u_searches,      \* the sub-searches of the union request: their sort_by clauses
    u_wildcard,      \* whether the sub-searches query `*`
    u_index,         \* number of sub-searches do_union has run
    u_total,         \* total: sum of the sub-searches' found counts
    search_cutoff,   \* the thread-local cutoff flag
    u_cutoffs,       \* history: the sub-searches that were cut off
    u_result         \* what do_union returned

unionVars == <<u_searches, u_wildcard, u_index, u_total, search_cutoff, u_cutoffs, u_result>>

\* analytics background loop: AnalyticsManager::run, stop, dispose, persist_events
VARIABLES
    query_collection_events, \* per source collection: the buffered events
    an_maps,                 \* the other analytics maps that are not empty
    quit,                    \* std::atomic<bool> quit
    an_mutex,                \* who holds AnalyticsManager::mutex
    run_pc,                  \* position of the thread in run()
    stop_pc,                 \* position of the thread in stop()
    an_posts                 \* the POSTs of the last flush: payload and status

flushVars == <<query_collection_events, an_maps, quit, an_mutex, run_pc, stop_pc, an_posts>>

\* an override that is added, listed and removed: add_override, get_overrides,
\* remove_override
VARIABLES
    ov_trip,         \* how far the add, list, remove sequence got, and the state before it
    ov_listing       \* what get_overrides returned last

tripVars == <<ov_trip, ov_listing>>

\* alter requests that overlap in time: Collection::alter, get_alter_schema_status
VARIABLES
    alt_pc,          \* per request thread: its position in alter
    alt_status       \* the last answer of get_alter_schema_status

flagVars == <<alt_pc, alt_status>>

\* analytics rules: AnalyticsManager::create_rule, create_index, remove_rule,
\* remove_index
VARIABLES
    rules,           \* the maps of the analytics manager and the rule keys of the store
    rule_call        \* per request thread: the create_index call it is in

ruleVars == <<rules, rule_call>>

\* the subsystems whose specifications stand apart from the ones above
extraVars == <<flagVars, tripVars, ruleVars>>

vars == <<storeVars, lockVars, alterVars, rateVars, curateVars, cascadeVars, unionVars,
          flushVars, extraVars>>

\* what the actions of one subsystem leave alone: the other subsystems
StoreFrame ==
    UNCHANGED <<lockVars, alterVars, rateVars, curateVars, cascadeVars, unionVars, flushVars,
                extraVars>>

LockFrame ==
    UNCHANGED <<storeVars, alterVars, rateVars, curateVars, cascadeVars, unionVars, flushVars,
                extraVars>>

AlterFrame ==
    UNCHANGED <<storeVars, lockVars, rateVars, curateVars, cascadeVars, unionVars, flushVars,
                extraVars>>

\* what neither add_event nor the background loop touches
EventFrame ==
    UNCHANGED <<storeVars, lockVars, alterVars, curateVars, cascadeVars, unionVars,
                extraVars>>

RateFrame == EventFrame /\ UNCHANGED flushVars

FlushFrame == EventFrame /\ UNCHANGED <<now_ts_seconds, analytics_minute_rate_limit, accepted, ev_result>>

CurateFrame ==
    UNCHANGED <<storeVars, lockVars, alterVars, rateVars, cascadeVars, unionVars, flushVars,
                extraVars>>

CascadeFrame ==
    UNCHANGED <<storeVars, lockVars, alterVars, rateVars, curateVars, unionVars, flushVars,
                extraVars>>

\* what an alter request leaves alone besides the schema, the index and the
\* stored documents
FlagFrame ==
    UNCHANGED <<storeVars, lockVars, rateVars, curateVars, cascadeVars, unionVars, flushVars,
                tripVars, ruleVars>>

\* what add_override, get_overrides and remove_override leave alone
TripFrame ==
    UNCHANGED <<storeVars, lockVars, alterVars, rateVars, cascadeVars, unionVars, flushVars,
                flagVars, ruleVars, cur_phase, cur_hidden, cur>>

\* what the rule calls of the analytics manager leave alone
RuleFrame ==
    UNCHANGED <<storeVars, lockVars, alterVars, rateVars, curateVars, cascadeVars, unionVars,
                flushVars, flagVars, tripVars>>

UnionFrame ==
    UNCHANGED <<storeVars, lockVars, alterVars, rateVars, curateVars, cascadeVars, flushVars,
                extraVars>>

(***************************************************************************)
(* ----------------------- document store ------------------------------- *)
(* Collection::to_doc, get_next_seq_id, batch_index, remove_document.      *)
(***************************************************************************)
Writers == {"w1", "w2"}
DocIds == {"a", "b"}
Operations == {"CREATE", "UPSERT", "UPDATE"}

\* m with key k bound to v (std::map / store put)
Put(m, k, v) == [x \in (DOMAIN m) \cup {k} |-> IF x = k THEN v ELSE m[x]]

\* m without key k (store remove / erase)
Erase(m, k) == [x \in (DOMAIN m) \ {k} |-> m[x]]

InitStore ==
    /\ next_seq_id = 0
    /\ store_next_seq = 0
    /\ doc_id_keys = <<>>
    /\ seq_id_keys = <<>>
    /\ w_pc = [w \in Writers |-> "idle"]
    /\ w_doc = [w \in Writers |-> "a"]
    /\ w_seq = [w \in Writers |-> 0]
    /\ w_upd = [w \in Writers |-> FALSE]
    /\ allocated = <<>>

\* the writer's request has returned: its locals are dead
WriterDone(w) ==
    /\ w_pc' = [w_pc EXCEPT ![w] = "idle"]
    /\ w_doc' = [w_doc EXCEPT ![w] = "a"]
    /\ w_seq' = [w_seq EXCEPT ![w] = 0]
    /\ w_upd' = [w_upd EXCEPT ![w] = FALSE]

\* the value of next_seq_id after `return next_seq_id++`
SkipIncrement(n) == n

FetchAdd(n) == n + 1

\* to_doc with an explicit id: looks the doc id up and decides between a new
\* document (a seq_id is allocated), an update of the stored seq_id, and an
\* error (409 for CREATE of a stored id, 404 for UPDATE of an unknown id)
ToDoc(w, id, op) ==
    /\ w_pc[w] = "idle"
    /\ IF id \in DOMAIN doc_id_keys
       THEN IF op = "CREATE"
            THEN UNCHANGED <<w_pc, w_doc, w_seq, w_upd>>
            ELSE /\ w_doc' = [w_doc EXCEPT ![w] = id]
                 /\ w_seq' = [w_seq EXCEPT ![w] = doc_id_keys[id]]
                 /\ w_upd' = [w_upd EXCEPT ![w] = TRUE]
                 /\ w_pc' = [w_pc EXCEPT ![w] = "index"]
       ELSE IF op = "UPDATE"
            THEN UNCHANGED <<w_pc, w_doc, w_seq, w_upd>>
            ELSE /\ next_seq_id < MaxSeqId
                 /\ w_doc' = [w_doc EXCEPT ![w] = id]
                 /\ w_pc' = [w_pc EXCEPT ![w] = "seq_store"]
                 /\ UNCHANGED <<w_seq, w_upd>>
    /\ UNCHANGED <<next_seq_id, store_next_seq, doc_id_keys, seq_id_keys, allocated>>
    /\ StoreFrame

\* get_next_seq_id, first statement: store->increment(get_next_seq_id_key(name), 1)
GetNextSeqIdStore(w) ==
    /\ w_pc[w] = "seq_store"
    /\ store_next_seq' = store_next_seq + 1
    /\ w_pc' = [w_pc EXCEPT ![w] = "seq_mem"]
    /\ UNCHANGED <<next_seq_id, doc_id_keys, seq_id_keys, w_doc, w_seq, w_upd, allocated>>
    /\ StoreFrame

\* get_next_seq_id, second statement: return next_seq_id++ (one atomic
\* read-modify-write of the counter)
GetNextSeqIdReturn(w) ==
    /\ w_pc[w] = "seq_mem"
    /\ w_seq' = [w_seq EXCEPT ![w] = next_seq_id]
    /\ allocated' = Append(allocated, next_seq_id)
    /\ next_seq_id' = FetchAdd(next_seq_id)
    /\ w_pc' = [w_pc EXCEPT ![w] = "index"]
    /\ UNCHANGED <<store_next_seq, doc_id_keys, seq_id_keys, w_doc, w_upd>>
    /\ StoreFrame

\* batch_index_in_memory: the record is validated and indexed in memory, or
\* rejected (index_record.indexed not ok), in which case nothing is stored
BatchIndexInMemory(w) ==
    /\ w_pc[w] = "index"
    /\ \E indexed_ok \in BOOLEAN :
         IF indexed_ok
         THEN /\ w_pc' = [w_pc EXCEPT ![w] = "store"]
              /\ UNCHANGED <<w_doc, w_seq, w_upd>>
         ELSE WriterDone(w)
    /\ UNCHANGED <<next_seq_id, store_next_seq, doc_id_keys, seq_id_keys, allocated>>
    /\ StoreFrame

\* batch_index, the store write of one indexed record. A new document writes
\* both keys in one rocksdb::WriteBatch; an update rewrites the seq_id key.
\* A failed write leaves the store as it was (remove_document is called with
\* remove_from_store = false).
BatchIndexStore(w) ==
    /\ w_pc[w] = "store"
    /\ \E write_ok \in BOOLEAN :
         IF write_ok
         THEN IF w_upd[w]
              THEN /\ seq_id_keys' = Put(seq_id_keys, w_seq[w], w_doc[w])
                   /\ UNCHANGED doc_id_keys
              ELSE /\ doc_id_keys' = Put(doc_id_keys, w_doc[w], w_seq[w])
                   /\ seq_id_keys' = Put(seq_id_keys, w_seq[w], w_doc[w])
         ELSE UNCHANGED <<doc_id_keys, seq_id_keys>>
    /\ WriterDone(w)
    /\ UNCHANGED <<next_seq_id, store_next_seq, allocated>>
    /\ StoreFrame

\* Collection::remove: resolves the doc id and fetches the document (404 when
\* either key is missing), then calls remove_document
Remove(w, id) ==
    /\ w_pc[w] = "idle"
    /\ IF id \in DOMAIN doc_id_keys /\ doc_id_keys[id] \in DOMAIN seq_id_keys
       THEN /\ w_doc' = [w_doc EXCEPT ![w] = id]
            /\ w_seq' = [w_seq EXCEPT ![w] = doc_id_keys[id]]
            /\ w_pc' = [w_pc EXCEPT ![w] = "rm_doc_key"]
            /\ UNCHANGED w_upd
       ELSE UNCHANGED <<w_pc, w_doc, w_seq, w_upd>>
    /\ UNCHANGED <<next_seq_id, store_next_seq, doc_id_keys, seq_id_keys, allocated>>
    /\ StoreFrame

\* remove_document: store->remove(get_doc_id_key(id))
RemoveDocIdKey(w) ==
    /\ w_pc[w] = "rm_doc_key"
    /\ doc_id_keys' = Erase(doc_id_keys, w_doc[w])
    /\ w_pc' = [w_pc EXCEPT ![w] = "rm_seq_key"]
    /\ UNCHANGED <<next_seq_id, store_next_seq, seq_id_keys, w_doc, w_seq, w_upd, allocated>>
    /\ StoreFrame

\* remove_document: store->remove(get_seq_id_key(seq_id))
RemoveSeqIdKey(w) ==
    /\ w_pc[w] = "rm_seq_key"
    /\ seq_id_keys' = Erase(seq_id_keys, w_seq[w])
    /\ WriterDone(w)
    /\ UNCHANGED <<next_seq_id, store_next_seq, doc_id_keys, allocated>>
    /\ StoreFrame

NextStore ==
    \/ \E w \in Writers, id \in DocIds, op \in Operations : ToDoc(w, id, op)
    \/ \E w \in Writers : GetNextSeqIdStore(w)
    \/ \E w \in Writers : GetNextSeqIdReturn(w)
    \/ \E w \in Writers : BatchIndexInMemory(w)
    \/ \E w \in Writers : BatchIndexStore(w)
    \/ \E w \in Writers, id \in DocIds : Remove(w, id)
    \/ \E w \in Writers : RemoveDocIdKey(w)
    \/ \E w \in Writers : RemoveSeqIdKey(w)

(***************************************************************************)
(* ----------------------- collection lock ------------------------------ *)
(* Collection::mutex (a std::shared_mutex) and the reference edges it      *)
(* guards: add_referenced_in, remove_referenced_in, is_referenced_in and   *)
(* the two locked blocks of remove_document.                               *)
(***************************************************************************)
LockThreads == {"t1", "t2"}
RefCollections == {"P", "Q"}

\* the member functions and the side of the mutex each one takes
SharedOps == {"add_referenced_in", "remove_referenced_in", "is_referenced_in"}
ExclusiveOps == {"remove_document"}

\* the member functions that write collection state under the lock they take
MutatingOps == {"add_referenced_in", "remove_referenced_in", "remove_document"}

InitLock ==
    /\ lk_writer = "none"
    /\ lk_readers = {}
    /\ t_pc = [t \in LockThreads |-> "idle"]
    /\ t_op = [t \in LockThreads |-> "is_referenced_in"]
    /\ t_arg = [t \in LockThreads |-> "P"]
    /\ referenced_in = {}

\* a thread enters one of the member functions
Call(t, op, coll) ==
    /\ t_pc[t] = "idle"
    /\ t_pc' = [t_pc EXCEPT ![t] = "wait"]
    /\ t_op' = [t_op EXCEPT ![t] = op]
    /\ t_arg' = [t_arg EXCEPT ![t] = coll]
    /\ UNCHANGED <<lk_writer, lk_readers, referenced_in>>
    /\ LockFrame

\* std::shared_lock lock(mutex)
LockShared(t) ==
    /\ t_pc[t] = "wait"
    /\ t_op[t] \in SharedOps
    /\ lk_writer = "none"
    /\ lk_readers' = lk_readers \cup {t}
    /\ t_pc' = [t_pc EXCEPT ![t] = "locked"]
    /\ UNCHANGED <<lk_writer, t_op, t_arg, referenced_in>>
    /\ LockFrame

\* std::unique_lock lock(mutex)
LockExclusive(t) ==
    /\ t_pc[t] = "wait"
    /\ t_op[t] \in ExclusiveOps
    /\ lk_writer = "none"
    /\ lk_readers = {}
    /\ lk_writer' = t
    /\ t_pc' = [t_pc EXCEPT ![t] = "locked"]
    /\ UNCHANGED <<lk_readers, t_op, t_arg, referenced_in>>
    /\ LockFrame

\* the body of the member function and the release of its lock at scope exit:
\* add_referenced_in emplaces the edge, remove_referenced_in erases it,
\* is_referenced_in and remove_document's first block only read the edges
Body(t) ==
    /\ t_pc[t] = "locked"
    /\ referenced_in' =
         CASE t_op[t] = "add_referenced_in" -> referenced_in \cup {t_arg[t]}
           [] t_op[t] = "remove_referenced_in" -> referenced_in \ {t_arg[t]}
           [] OTHER -> referenced_in
    /\ lk_writer' = IF lk_writer = t THEN "none" ELSE lk_writer
    /\ lk_readers' = lk_readers \ {t}
    /\ t_pc' = [t_pc EXCEPT ![t] = "idle"]
    /\ t_op' = [t_op EXCEPT ![t] = "is_referenced_in"]
    /\ t_arg' = [t_arg EXCEPT ![t] = "P"]
    /\ LockFrame

NextLock ==
    \/ \E t \in LockThreads, op \in SharedOps \cup ExclusiveOps, c \in RefCollections :
         Call(t, op, c)
    \/ \E t \in LockThreads : LockShared(t)
    \/ \E t \in LockThreads : LockExclusive(t)
    \/ \E t \in LockThreads : Body(t)

(***************************************************************************)
(* ----------------------- schema alter --------------------------------- *)
(* Collection::alter: validate_alter_payload under a shared lock, then     *)
(* batch_alter_data for the additions and deletions, batch_alter_data for  *)
(* the re-indexed fields, then update_apikey.                              *)
(***************************************************************************)
\* Collection::ALTER_STATUS_MSG_COUNT, the capacity of alter_history
ALTER_STATUS_MSG_COUNT == 5

FieldNames == {"f", "e"}

\* the fields declared with embed.from (their values are generated)
EmbedFieldNames == {"e"}

\* embed.from of an embedding field: the fields it is computed from
EmbedFrom(n) == {"f"}

\* one entry of the payload's `fields` array (`optional` is read only for an
\* added field whose values come from the documents)
Changes ==
    {c \in [name : FieldNames, drop : BOOLEAN, optional : BOOLEAN] :
        c.optional => (~c.drop /\ c.name \notin EmbedFieldNames)}

\* the payloads: one change, or two changes (which may drop and re-add a field)
Payloads == {<<c>> : c \in Changes} \cup {<<c, d>> : c, d \in Changes}

NoFields == [add |-> <<>>, reindex |-> <<>>, del |-> <<>>, update |-> <<>>]

Range(q) == {q[i] : i \in DOMAIN q}

InitAlter ==
    /\ search_schema = {}
    /\ embedding_fields = {}
    /\ index_fields = {}
    /\ stored_docs = (0 :> {"f"}) @@ (1 :> {})
    /\ alter_in_progress = FALSE
    /\ validated_docs = 0
    /\ altered_docs = 0
    /\ alter_history = <<>>
    /\ a_pc = "idle"
    /\ a_payload = <<>>
    /\ a_fields = NoFields
    /\ a_second = FALSE
    /\ a_before = [schema |-> {}, index |-> {}, docs |-> (0 :> {"f"}) @@ (1 :> {})]
    /\ a_result = "none"

\* std::sort of the payload: the entries that contain "drop" come first
SortDrops(p) ==
    SelectSeq(p, LAMBDA c : c.drop) \o SelectSeq(p, LAMBDA c : ~c.drop)

\* delete_field_names, collected in the first pass over the payload
DeleteFieldNames(p) == {p[i].name : i \in {j \in DOMAIN p : p[j].drop}}

\* the second pass of validate_alter_payload over one payload entry c.
\* v.updated is the local copy updated_search_schema; v.emb is the MEMBER
\* embedding_fields, which the pass emplaces into directly; v.required are
\* the non-optional new fields the stored documents must carry.
ValidateChange(v, c, dels, embed_ok) ==
    IF v.err THEN v
    ELSE IF c.drop
    THEN IF c.name \notin search_schema
         THEN [v EXCEPT !.err = TRUE]
         ELSE [v EXCEPT !.fields.del = Append(@, c.name),
                        !.updated = @ \ {c.name}]
    ELSE LET is_addition == c.name \notin search_schema
             is_reindex == c.name \in dels
         IN IF is_addition /\ is_reindex
            THEN [v EXCEPT !.err = TRUE]
            ELSE IF is_addition \/ is_reindex
            THEN IF c.name \in EmbedFieldNames /\ ~embed_ok
                 THEN [v EXCEPT !.err = TRUE, !.updated = @ \cup {c.name}]
                 ELSE [v EXCEPT
                         !.updated = @ \cup {c.name},
                         !.fields.reindex = IF is_reindex THEN Append(@, c.name) ELSE @,
                         !.fields.add = IF is_reindex THEN @ ELSE Append(@, c.name),
                         !.emb = IF c.name \in EmbedFieldNames THEN @ \cup {c.name} ELSE @,
                         !.required = IF c.optional \/ c.name \in EmbedFieldNames
                                      THEN @ \ {c.name} ELSE @ \cup {c.name}]
            ELSE IF c.name \in EmbedFieldNames
            THEN [v EXCEPT !.fields.update = Append(@, c.name)]
            ELSE [v EXCEPT !.err = TRUE]

RECURSIVE ValidateChanges(_, _, _, _, _)
ValidateChanges(v, p, i, dels, embed_ok) ==
    IF i > Len(p) THEN v
    ELSE ValidateChanges(ValidateChange(v, p[i], dels, embed_ok), p, i + 1, dels, embed_ok)

\* the number of stored documents the data validation loop visits: all of
\* them, or the documents up to the first one that misses a required field
ValidatedDocs(required) ==
    LET bad == {s \in DOMAIN stored_docs : ~(required \subseteq stored_docs[s])}
    IN IF bad = {} THEN Cardinality(DOMAIN stored_docs)
       ELSE Cardinality({s \in DOMAIN stored_docs : \A b \in bad : s <= b})

\* validate_alter_payload: the field pass, then validate_index_in_memory of
\* every stored document against updated_search_schema
ValidateAlterPayload(payload, embed_ok) ==
    LET p == SortDrops(payload)
        v0 == [err |-> FALSE, updated |-> search_schema, emb |-> embedding_fields,
               fields |-> NoFields, required |-> {}, validated |-> 0]
        v == ValidateChanges(v0, p, 1, DeleteFieldNames(p), embed_ok)
    IN IF v.err THEN v
       ELSE [v EXCEPT !.validated = ValidatedDocs(v.required),
                      !.err = \E s \in DOMAIN stored_docs : ~(v.required \subseteq stored_docs[s])]

\* the member search_schema after validate_alter_payload: the pass edits its
\* copy updated_search_schema and leaves the member as it is
WriteUpdatedSchema(member, updated) == updated

SchemaAfterValidation(member, updated) == member

\* the clock read for resp["timestamp"], counted in recorded alter requests:
\* the reading written into the newest entry of the history
AlterClock(h) == IF h = <<>> THEN 0 ELSE h[Len(h)].timestamp

\* an alter_history that never drops an entry
StoreWithoutEviction(h, success) ==
    Append(h, [timestamp |-> AlterClock(h) + 1, success |-> success])

\* check_store_alter_status_msg: the oldest entry is dropped once the history
\* holds ALTER_STATUS_MSG_COUNT entries, then the new entry is appended
CheckStoreAlterStatusMsg(h, success) ==
    Append(IF Len(h) = ALTER_STATUS_MSG_COUNT THEN Tail(h) ELSE h,
           [timestamp |-> AlterClock(h) + 1, success |-> success])

\* alter returns: check_store_alter_status_msg and reset_alter_status_counters
\* (in either order), after which the request's locals are dead; the
\* snapshot taken at entry is kept for a request that failed
AlterReturn(success, result) ==
    /\ alter_history' = CheckStoreAlterStatusMsg(alter_history, success)
    /\ alter_in_progress' = FALSE
    /\ validated_docs' = 0
    /\ altered_docs' = 0
    /\ a_pc' = "idle"
    /\ a_payload' = <<>>
    /\ a_fields' = NoFields
    /\ a_second' = FALSE
    /\ a_result' = result
    /\ a_before' = IF success
                   THEN [schema |-> search_schema, index |-> index_fields,
                         docs |-> stored_docs]
                   ELSE a_before

\* alter is entered: alter_in_progress = true under the shared lock
AlterEnter(payload) ==
    /\ a_pc = "idle"
    /\ alter_in_progress' = TRUE
    /\ a_payload' = payload
    /\ a_pc' = "validate"
    /\ a_before' = [schema |-> search_schema, index |-> index_fields, docs |-> stored_docs]
    /\ a_result' = "none"
    /\ UNCHANGED <<search_schema, embedding_fields, index_fields, stored_docs,
                   validated_docs, altered_docs, alter_history, a_fields, a_second>>
    /\ AlterFrame

\* an alter request, while fewer than MaxAlters requests were recorded
AlterBegin(payload) ==
    /\ AlterClock(alter_history) < MaxAlters
    /\ AlterEnter(payload)

\* the payloads of SpecHistory: one change
HistoryPayloads == {<<c>> : c \in Changes}

\* an alter request, while fewer than MaxRecorded requests were recorded
AlterBeginRecorded(payload) ==
    /\ AlterClock(alter_history) < MaxRecorded
    /\ AlterEnter(payload)

\* validate_alter_payload and alter's handling of its result (the payload is
\* not read for its field changes after this point)
AlterValidate(embed_ok) ==
    /\ a_pc = "validate"
    /\ LET v == ValidateAlterPayload(a_payload, embed_ok)
       IN /\ search_schema' = SchemaAfterValidation(search_schema, v.updated)
          /\ embedding_fields' = v.emb
          /\ IF v.err
             THEN AlterReturn(FALSE, "validation_error")
             ELSE /\ a_fields' = v.fields
                  /\ validated_docs' = v.validated
                  /\ a_payload' = <<>>
                  /\ a_pc' = "batch_add"
                  /\ UNCHANGED <<alter_in_progress, altered_docs, alter_history,
                                 a_second, a_result, a_before>>
    /\ UNCHANGED <<index_fields, stored_docs>>
    /\ AlterFrame

\* the fields of q up to and including the first embedding field
UpToFirstEmbed(q) ==
    {q[i] : i \in {j \in DOMAIN q : \A k \in 1..(j - 1) : q[k] \notin EmbedFieldNames}}

\* batch_alter_data, first block (unique lock): the fields are added to
\* search_schema one by one; an embedding field whose model cannot be
\* initialised makes the function return with the earlier fields added
BatchAlterAdd(model_ok) ==
    /\ a_pc = "batch_add"
    /\ LET alter_fields == IF a_second THEN a_fields.reindex ELSE a_fields.add
           has_embed == Range(alter_fields) \cap EmbedFieldNames # {}
       IN IF has_embed /\ ~model_ok
          THEN /\ search_schema' = search_schema \cup UpToFirstEmbed(alter_fields)
               /\ AlterReturn(FALSE, "mutation_error")
               /\ UNCHANGED embedding_fields
          ELSE /\ search_schema' = search_schema \cup Range(alter_fields)
               /\ embedding_fields' =
                      embedding_fields \cup (Range(alter_fields) \cap EmbedFieldNames)
               /\ a_pc' = "batch_reindex"
               /\ UNCHANGED <<alter_in_progress, validated_docs, altered_docs,
                              alter_history, a_payload, a_fields, a_second, a_result,
                              a_before>>
    /\ UNCHANGED <<index_fields, stored_docs>>
    /\ AlterFrame

\* the seq_id variable of the scan loop when a batch is flushed: the seq_id
\* of the last record read
LastSeqId == CHOOSE s \in DOMAIN stored_docs : \A r \in DOMAIN stored_docs : r <= s

\* batch_alter_data, second block (shared lock): every stored document is
\* read; the batch (all documents, fewer than index_batch_size) has the
\* deleted fields removed from the index with index->remove(seq_id, rec.doc,
\* del_fields, true), is indexed on the new fields, and is rewritten to the
\* store when an embedding field was added
BatchAlterReindex(write_ok) ==
    /\ a_pc = "batch_reindex"
    /\ LET alter_fields == IF a_second THEN a_fields.reindex ELSE a_fields.add
           del_fields == IF a_second THEN <<>> ELSE a_fields.del
           new_embed == Range(alter_fields) \cap EmbedFieldNames
           removed == {<<LastSeqId, n>> : n \in Range(del_fields)}
           indexed == {e \in (DOMAIN stored_docs) \X Range(alter_fields) :
                          e[2] \in stored_docs[e[1]] \/ e[2] \in EmbedFieldNames}
       IN /\ index_fields' = (index_fields \ removed) \cup indexed
          /\ stored_docs' =
               IF new_embed # {} /\ write_ok
               THEN [s \in DOMAIN stored_docs |-> stored_docs[s] \cup new_embed]
               ELSE stored_docs
    /\ altered_docs' = Cardinality(DOMAIN stored_docs)
    /\ a_pc' = "batch_purge"
    /\ UNCHANGED <<search_schema, embedding_fields, alter_in_progress, validated_docs,
                   alter_history, a_payload, a_fields, a_second, a_before, a_result>>
    /\ AlterFrame

\* process_remove_field_for_embedding_fields: the embedding fields of the
\* schema left without any embed.from field once del is dropped
GarbageEmbedFields(del) ==
    {n \in search_schema \cap EmbedFieldNames : del # {} /\ EmbedFrom(n) \subseteq del}

\* batch_alter_data, third block (unique lock): the deleted fields leave
\* search_schema and embedding_fields
BatchAlterPurge ==
    /\ a_pc = "batch_purge"
    /\ LET del == IF a_second THEN {} ELSE Range(a_fields.del)
       IN /\ search_schema' = (search_schema \ del) \ GarbageEmbedFields(del)
          /\ embedding_fields' = (embedding_fields \ del) \ GarbageEmbedFields(del)
    /\ a_pc' = "batch_persist"
    /\ UNCHANGED <<index_fields, stored_docs, alter_in_progress, validated_docs,
                   altered_docs, alter_history, a_payload, a_fields, a_second,
                   a_before, a_result>>
    /\ AlterFrame

\* the request has passed every step: reset_alter_status_counters and
\* check_store_alter_status_msg(true)
AlterSucceed == AlterReturn(TRUE, "ok")

\* batch_alter_data, last block: persist_collection_meta, whose failure is
\* returned to alter; alter then runs batch_alter_data for reindex_fields,
\* update_apikey for update_fields, or returns
BatchAlterPersist(persist_ok) ==
    /\ a_pc = "batch_persist"
    /\ IF ~persist_ok
       THEN AlterReturn(FALSE, "mutation_error")
       ELSE IF ~a_second /\ a_fields.reindex # <<>>
       THEN /\ a_second' = TRUE
            /\ a_pc' = "batch_add"
            /\ UNCHANGED <<alter_in_progress, validated_docs, altered_docs,
                           alter_history, a_payload, a_fields, a_result, a_before>>
       ELSE IF a_fields.update # <<>>
       THEN /\ a_pc' = "update_apikey"
            /\ UNCHANGED <<alter_in_progress, validated_docs, altered_docs,
                           alter_history, a_payload, a_fields, a_second, a_result,
                           a_before>>
       ELSE AlterSucceed
    /\ UNCHANGED <<search_schema, embedding_fields, index_fields, stored_docs>>
    /\ AlterFrame

\* update_apikey for the embedding fields of update_fields: a failure is
\* recorded and returned, otherwise alter returns success
AlterUpdateApikey(update_ok) ==
    /\ a_pc = "update_apikey"
    /\ IF update_ok THEN AlterSucceed ELSE AlterReturn(FALSE, "mutation_error")
    /\ UNCHANGED <<search_schema, embedding_fields, index_fields, stored_docs>>
    /\ AlterFrame

NextAlter ==
    \/ \E payload \in Payloads : AlterBegin(payload)
    \/ \E embed_ok \in BOOLEAN : AlterValidate(embed_ok)
    \/ \E model_ok \in BOOLEAN : BatchAlterAdd(model_ok)
    \/ \E write_ok \in BOOLEAN : BatchAlterReindex(write_ok)
    \/ BatchAlterPurge
    \/ \E persist_ok \in BOOLEAN : BatchAlterPersist(persist_ok)
    \/ \E update_ok \in BOOLEAN : AlterUpdateApikey(update_ok)

(***************************************************************************)
(* Alter requests that overlap in time. alter takes the collection mutex   *)
(* shared (6207), so a second request enters while the first one           *)
(* validates or runs batch_alter_data; the flag and the history are        *)
(* written by every request. The field changes of the requests are left    *)
(* out: a request passes or fails validation, and fails or completes its   *)
(* mutation.                                                                *)
(***************************************************************************)
AlterThreads == {"a1", "a2"}

InitFlag ==
    /\ alt_pc = [t \in AlterThreads |-> "idle"]
    /\ alt_status = "none"

\* reset_alter_status_counters and check_store_alter_status_msg of a request
\* that returns
FlagReturn(t, success) ==
    /\ alter_history' = CheckStoreAlterStatusMsg(alter_history, success)
    /\ alter_in_progress' = FALSE
    /\ validated_docs' = 0
    /\ altered_docs' = 0
    /\ alt_pc' = [alt_pc EXCEPT ![t] = "idle"]

\* alter is entered: shared lock, alter_in_progress = true
AlterStart(t) ==
    /\ alt_pc[t] = "idle"
    /\ AlterClock(alter_history) + Cardinality({u \in AlterThreads : alt_pc[u] # "idle"})
           < MaxAlters
    /\ alter_in_progress' = TRUE
    /\ alt_pc' = [alt_pc EXCEPT ![t] = "validate"]
    /\ UNCHANGED <<search_schema, embedding_fields, index_fields, stored_docs,
                   validated_docs, altered_docs, alter_history, a_pc, a_payload,
                   a_fields, a_second, a_before, a_result, alt_status>>
    /\ FlagFrame

\* validate_alter_payload returned: on an error the failure is recorded and
\* the counters are reset, otherwise the shared lock is released and the
\* request goes on to batch_alter_data
AlterValidated(t, ok) ==
    /\ alt_pc[t] = "validate"
    /\ IF ok
       THEN /\ alt_pc' = [alt_pc EXCEPT ![t] = "mutate"]
            /\ UNCHANGED <<alter_in_progress, validated_docs, altered_docs, alter_history>>
       ELSE FlagReturn(t, FALSE)
    /\ UNCHANGED <<search_schema, embedding_fields, index_fields, stored_docs, a_pc,
                   a_payload, a_fields, a_second, a_before, a_result, alt_status>>
    /\ FlagFrame

\* batch_alter_data and update_apikey returned: a failure is recorded, a
\* success is recorded after the counters were reset
AlterMutated(t, ok) ==
    /\ alt_pc[t] = "mutate"
    /\ FlagReturn(t, ok)
    /\ UNCHANGED <<search_schema, embedding_fields, index_fields, stored_docs, a_pc,
                   a_payload, a_fields, a_second, a_before, a_result, alt_status>>
    /\ FlagFrame

\* get_alter_schema_status: 400 unless alter_in_progress
GetAlterSchemaStatus ==
    /\ alt_status' = IF ~alter_in_progress THEN "no_active_alter" ELSE "status"
    /\ UNCHANGED <<alterVars, alt_pc>>
    /\ FlagFrame

NextFlag ==
    \/ \E t \in AlterThreads : AlterStart(t)
    \/ \E t \in AlterThreads, ok \in BOOLEAN : AlterValidated(t, ok)
    \/ \E t \in AlterThreads, ok \in BOOLEAN : AlterMutated(t, ok)
    \/ GetAlterSchemaStatus

NextHistory ==
    \/ \E payload \in HistoryPayloads : AlterBeginRecorded(payload)
    \/ \E embed_ok \in BOOLEAN : AlterValidate(embed_ok)
    \/ \E model_ok \in BOOLEAN : BatchAlterAdd(model_ok)
    \/ \E write_ok \in BOOLEAN : BatchAlterReindex(write_ok)
    \/ BatchAlterPurge
    \/ \E persist_ok \in BOOLEAN : BatchAlterPersist(persist_ok)
    \/ \E update_ok \in BOOLEAN : AlterUpdateApikey(update_ok)

(***************************************************************************)
(* ----------------------- analytics events ----------------------------- *)
(* AnalyticsManager::add_event, the per-IP rate limiter. add_event runs    *)
(* under AnalyticsManager::mutex, held exclusively for the whole call.     *)
(***************************************************************************)
\* #define EVENTS_RATE_LIMIT_SEC 60
EVENTS_RATE_LIMIT_SEC == 60

ClientIps == {"ip1", "ip2"}

\* the values init() may be given for analytics_minute_rate_limit
RateLimits == {0, 1, 2, 3}

\* the amounts (seconds) by which the clock advances between two calls
TickSteps == {30, 59}

InitRate ==
    /\ now_ts_seconds = 0
    /\ analytics_minute_rate_limit = 0
    /\ events_cache = <<>>
    /\ accepted = [ip \in ClientIps |-> <<>>]
    /\ ev_result = [ip |-> "ip1", code |-> "none"]

\* AnalyticsManager::init, called before the first event is received
AnalyticsInit(rate_limit) ==
    /\ now_ts_seconds = 0
    /\ events_cache = <<>>
    /\ ev_result.code = "none"
    /\ analytics_minute_rate_limit' = rate_limit
    /\ UNCHANGED <<now_ts_seconds, events_cache, accepted, ev_result>>
    /\ RateFrame

\* the clock advances
Tick(dt) ==
    /\ now_ts_seconds + dt <= MaxTime
    /\ now_ts_seconds' = now_ts_seconds + dt
    /\ UNCHANGED <<analytics_minute_rate_limit, events_cache, accepted, ev_result>>
    /\ RateFrame

\* count > analytics_minute_rate_limit
LimitExceeded(count, limit) == count > limit

\* events_cache_it->second.count >= analytics_minute_rate_limit
LimitReached(count, limit) == count >= limit

\* the map names of AnalyticsManager besides query_collection_events and
\* events_cache
AnalyticsMaps == {"suggestion_configs", "query_collection_mapping", "popular_queries",
                  "nohits_queries", "counter_events", "event_collection_map"}

\* the source collections that have an analytics rule
SrcCollections == {"c1", "c2"}

\* the arrival number of the next accepted event (stands for its timestamp)
ArrivalNo == Len(accepted["ip1"]) + Len(accepted["ip2"]) + 1

\* an insertion at the head of the buffer
PushFront(events_vec, event) == <<event>> \o events_vec

\* events_vec.emplace_back(event)
PushBack(events_vec, event) == Append(events_vec, event)

\* add_event(client_ip, ...), under the mutex: the event is refused before
\* the limiter when no rule routes it (404 / 400); otherwise the limiter
\* rejects it with 500 "event rate limit reached.", or counts it and the
\* event is appended to the buffer of its source collection (the rules log
\* to the store)
AddEvent(client_ip, routed, src_collection) ==
    /\ Len(accepted[client_ip]) < MaxEvents
    /\ an_mutex = "free"
    /\ routed => /\ "event_collection_map" \in an_maps
                 /\ src_collection \in DOMAIN query_collection_events
    /\ LET refuse(code) ==
              /\ ev_result' = [ip |-> client_ip, code |-> code]
              /\ UNCHANGED <<events_cache, accepted, query_collection_events>>
           accept(entry) ==
              /\ events_cache' = Put(events_cache, client_ip, entry)
              /\ accepted' = [accepted EXCEPT ![client_ip] = Append(@, now_ts_seconds)]
              /\ ev_result' = [ip |-> client_ip, code |-> "ok"]
              /\ query_collection_events' =
                    [query_collection_events EXCEPT ![src_collection] = PushBack(@, ArrivalNo)]
       IN IF ~routed
          THEN refuse("not_routed")
          ELSE IF client_ip \in DOMAIN events_cache
          THEN LET rec == events_cache[client_ip]
               IN IF (now_ts_seconds - rec.last_update_time) < EVENTS_RATE_LIMIT_SEC
                  THEN IF LimitReached(rec.count, analytics_minute_rate_limit)
                       THEN refuse("rate_limited")
                       ELSE accept([rec EXCEPT !.count = @ + 1])
                  ELSE accept([last_update_time |-> now_ts_seconds, count |-> 1])
          ELSE accept([last_update_time |-> now_ts_seconds, count |-> 1])
    /\ UNCHANGED <<now_ts_seconds, analytics_minute_rate_limit>>
    /\ UNCHANGED <<an_maps, quit, an_mutex, run_pc, stop_pc, an_posts>>
    /\ EventFrame

NextRate ==
    \/ \E rate_limit \in RateLimits : AnalyticsInit(rate_limit)
    \/ \E dt \in TickSteps : Tick(dt)
    \/ \E ip \in ClientIps, routed \in BOOLEAN : AddEvent(ip, routed, "c1")

(***************************************************************************)
(* ----------------------- analytics background loop -------------------- *)
(* One thread runs AnalyticsManager::run, another calls stop(); add_event  *)
(* feeds the event buffers. The mutex is held by at most one of them.      *)
(***************************************************************************)
InitFlush ==
    /\ query_collection_events = [c \in SrcCollections |-> <<>>]
    /\ an_maps = AnalyticsMaps
    /\ quit = FALSE
    /\ an_mutex = "free"
    /\ run_pc = "loop"
    /\ stop_pc = "idle"
    /\ an_posts = <<>>

\* the orders in which persist_events may meet the keys of the unordered_map
CollectionOrders == {<<"c1", "c2">>, <<"c2", "c1">>}

\* what send_http_response meets: no raft server or an empty leader URL (no
\* POST is made), a POST answered with 200, a POST answered otherwise
LeaderStates == {"no_leader", "ok", "error"}

RECURSIVE PersistEventsLoop(_, _, _, _, _)
\* the loop of persist_events from position i of order on: payload is the
\* json array declared before the loop, posts the POSTs made so far
PersistEventsLoop(order, i, events, payload, leader) ==
    IF i > Len(order) THEN [events |-> events, posts |-> <<>>]
    ELSE LET collection == order[i]
             filled == payload \o [j \in DOMAIN events[collection] |->
                          [collection |-> collection, id |-> events[collection][j]]]
             rest == PersistEventsLoop(order, i + 1,
                        IF filled # <<>> THEN [events EXCEPT ![collection] = <<>>] ELSE events,
                        filled, leader)
         IN IF filled # <<>> /\ leader # "no_leader"
            THEN [rest EXCEPT !.posts = <<[payload |-> filled, status |-> leader]>> \o @]
            ELSE rest

\* dispose(): every map is cleared, the aggregators are deleted
Dispose ==
    /\ query_collection_events' = <<>>
    /\ an_maps' = {}
    /\ events_cache' = <<>>

\* run(): while(!quit), lock, cv.wait_for(...): the thread leaves the loop when
\* quit is set, else it waits with the mutex released
RunWait ==
    /\ run_pc = "loop"
    /\ an_mutex = "free"
    /\ run_pc' = IF quit THEN "exit" ELSE "waiting"
    /\ UNCHANGED <<query_collection_events, an_maps, quit, an_mutex, stop_pc, an_posts, events_cache>>
    /\ FlushFrame

\* wait_for returns, on a notify or on its timeout, with the mutex held
RunWake ==
    /\ run_pc = "waiting"
    /\ an_mutex = "free"
    /\ an_mutex' = "run"
    /\ run_pc' = "woke"
    /\ UNCHANGED <<query_collection_events, an_maps, quit, stop_pc, an_posts, events_cache>>
    /\ FlushFrame

\* if(quit) { lk.unlock(); break; }
RunCheckQuit ==
    /\ run_pc = "woke"
    /\ IF quit
       THEN run_pc' = "exit" /\ an_mutex' = "free"
       ELSE run_pc' = "checked" /\ UNCHANGED an_mutex
    /\ UNCHANGED <<query_collection_events, an_maps, quit, stop_pc, an_posts, events_cache>>
    /\ FlushFrame

\* the flush interval test: `continue` when it has not elapsed, else the
\* flush starts
RunCheckInterval(elapsed) ==
    /\ run_pc = "checked"
    /\ IF elapsed
       THEN run_pc' = "flushing" /\ UNCHANGED an_mutex
       ELSE run_pc' = "loop" /\ an_mutex' = "free"
    /\ UNCHANGED <<query_collection_events, an_maps, quit, stop_pc, an_posts, events_cache>>
    /\ FlushFrame

\* persist_query_events, persist_events, persist_popular_events, lk.unlock()
RunFlush(order, leader) ==
    /\ run_pc = "flushing"
    /\ LET keys == SelectSeq(order, LAMBDA c : c \in DOMAIN query_collection_events)
           out == PersistEventsLoop(keys, 1, query_collection_events, <<>>, leader)
       IN /\ query_collection_events' = out.events
          /\ an_posts' = out.posts
    /\ an_mutex' = "free"
    /\ run_pc' = "loop"
    /\ UNCHANGED <<an_maps, quit, stop_pc, events_cache>>
    /\ FlushFrame

\* dispose() at the end of run()
RunDispose ==
    /\ run_pc = "exit"
    /\ an_mutex = "free"
    /\ Dispose
    /\ run_pc' = "done"
    /\ UNCHANGED <<quit, an_mutex, stop_pc, an_posts>>
    /\ FlushFrame

\* stop(): quit = true
StopSetQuit ==
    /\ stop_pc = "idle"
    /\ quit' = TRUE
    /\ stop_pc' = "dispose"
    /\ UNCHANGED <<query_collection_events, an_maps, an_mutex, run_pc, an_posts, events_cache>>
    /\ FlushFrame

\* stop(): dispose(), which takes the mutex, then cv.notify_all()
StopDispose ==
    /\ stop_pc = "dispose"
    /\ an_mutex = "free"
    /\ Dispose
    /\ stop_pc' = "done"
    /\ UNCHANGED <<quit, an_mutex, run_pc, an_posts>>
    /\ FlushFrame

NextFlush ==
    \/ \E ip \in ClientIps, routed \in BOOLEAN, c \in SrcCollections : AddEvent(ip, routed, c)
    \/ RunWait
    \/ RunWake
    \/ RunCheckQuit
    \/ \E elapsed \in BOOLEAN : RunCheckInterval(elapsed)
    \/ \E order \in CollectionOrders, leader \in LeaderStates : RunFlush(order, leader)
    \/ RunDispose
    \/ StopSetQuit
    \/ StopDispose

(***************************************************************************)
(* ----------------------- curation ------------------------------------- *)
(* Collection::add_override, remove_override, curate_results with          *)
(* does_override_match, and process_filter_overrides. A query is the set   *)
(* of its words. The overrides of the catalogue have a rule query, no      *)
(* rule.filter_by, no effective_from/to window and no query rewrite        *)
(* (replace_query empty, remove_matched_tokens false); every hit resolves  *)
(* to a seq_id; the request enables overrides.                             *)
(***************************************************************************)
\* override ids in the order of std::map<std::string, override_t>
OverrideIdOrder == <<"o1", "o2">>

\* the tags a request may give, in the order of std::set<std::string>
TagOrder == <<"t1", "t2">>

\* the overrides a client may define
OverrideCatalog ==
    {o \in [tags : {{}, {"*"}, {"t1"}, {"t2"}, {"t1", "t2"}},
            match : {"exact", "contains"},
            query : {{"a"}},
            add_hits : {<<>>, <<"A">>},
            drop_hits : {<<>>, <<"A">>},
            filter_by : BOOLEAN,
            stop_processing : BOOLEAN] :
        /\ (o.add_hits = <<>>) # (o.drop_hits = <<>>)
        /\ o.tags # {} => o.match = "contains"
        /\ o.filter_by =>
             o.drop_hits = <<>> /\ o.tags = {} /\ o.match = "contains" /\ ~o.stop_processing}

\* the search requests
CurateRequests ==
    [query : {{"a"}, {"a", "b"}},
     tags : SUBSET Range(TagOrder),
     hidden_hits : {<<>>, <<"A">>},
     pinned_hits : {<<>>, <<"A">>}]

NoCuration ==
    [included_ids |-> <<>>, excluded_ids |-> <<>>, excluded_set |-> {},
     filter_overrides |-> <<>>, applied |-> <<>>, added |-> {}, dropped |-> {},
     found_overrides |-> {}, match_found |-> FALSE]

InitCurate ==
    /\ overrides = <<>>
    /\ override_tags = <<>>
    /\ override_store = {}
    /\ cur_phase = "idle"
    /\ cur_hidden = <<>>
    /\ cur = NoCuration

\* the maps after add_override of o under id: the tags of the override it
\* replaces lose the id, then overrides[id] = o and override_tags[tag] gains
\* the id for every tag of o (operator[] creates a missing tag entry)
AddOverrideMaps(ovs, tags, id, o) ==
    LET erased == [t \in DOMAIN tags |->
                     IF id \in DOMAIN ovs /\ t \in ovs[id].tags
                     THEN tags[t] \ {id} ELSE tags[t]]
    IN [overrides |-> Put(ovs, id, o),
        override_tags |->
            [t \in DOMAIN erased \cup o.tags |->
                (IF t \in DOMAIN erased THEN erased[t] ELSE {})
                    \cup (IF t \in o.tags THEN {id} ELSE {})]]

\* the maps after remove_override of a known id: the id is erased from the
\* entry of each of its tags, and from overrides
RemoveOverrideMaps(ovs, tags, id) ==
    [overrides |-> Erase(ovs, id),
     override_tags |-> [t \in DOMAIN tags |->
                          IF t \in ovs[id].tags THEN tags[t] \ {id} ELSE tags[t]]]

\* add_override: the override is written to the store (a failed write returns
\* 500), then the maps are updated
AddOverride(id, o, inserted) ==
    /\ cur_phase = "idle"
    /\ IF ~inserted
       THEN UNCHANGED <<overrides, override_tags, override_store>>
       ELSE /\ overrides' = AddOverrideMaps(overrides, override_tags, id, o).overrides
            /\ override_tags' = AddOverrideMaps(overrides, override_tags, id, o).override_tags
            /\ override_store' = override_store \cup {id}
    /\ UNCHANGED <<cur_phase, cur_hidden, cur>>
    /\ CurateFrame

\* remove_override: 404 for an unknown id, 500 when the store delete fails,
\* otherwise the key leaves the store and the id leaves the maps
RemoveOverride(id, removed) ==
    /\ cur_phase = "idle"
    /\ IF id \in DOMAIN overrides /\ removed
       THEN /\ overrides' = RemoveOverrideMaps(overrides, override_tags, id).overrides
            /\ override_tags' = RemoveOverrideMaps(overrides, override_tags, id).override_tags
            /\ override_store' = override_store \ {id}
       ELSE UNCHANGED <<overrides, override_tags, override_store>>
    /\ UNCHANGED <<cur_phase, cur_hidden, cur>>
    /\ CurateFrame

\* override_tags.find(tag): the ids under the tag, none when it has no entry
TagIds(t) == IF t \in DOMAIN override_tags THEN override_tags[t] ELSE {}

\* the hits of q that are not in the set excluded
NotExcluded(q, excluded) == SelectSeq(q, LAMBDA h : h \notin excluded)

\* does_override_match: the override is dismissed when it is tagged and no
\* tag matched; an override with a filter_by is first noted in
\* filter_overrides; when its rule matches the query, its drop_hits join the
\* excluded ids and its add_hits that are not in excluded_set are included
DoesOverrideMatch(id, st, query, tags_matched, wildcard_tag_matched) ==
    LET o == overrides[id]
        st1 == IF o.filter_by
               THEN [st EXCEPT !.filter_overrides = Append(@, id)]
               ELSE st
        query_match == \/ o.match = "exact" /\ o.query = query
                       \/ o.match = "contains" /\ o.query \subseteq query
        dropped == Range(o.drop_hits)
        hits == NotExcluded(o.add_hits, st.excluded_set \cup dropped)
    IN IF ~wildcard_tag_matched /\ ~tags_matched /\ o.tags # {}
       THEN [st EXCEPT !.match_found = FALSE]
       ELSE IF ~((wildcard_tag_matched \/ tags_matched) /\ o.query = {}) /\ ~query_match
       THEN [st1 EXCEPT !.match_found = FALSE]
       ELSE [st1 EXCEPT !.excluded_ids = @ \o o.drop_hits,
                        !.excluded_set = @ \cup dropped,
                        !.included_ids = @ \o hits,
                        !.applied = Append(@, [id |-> id, stop_processing |-> o.stop_processing]),
                        !.added = @ \cup Range(hits),
                        !.dropped = @ \cup dropped,
                        !.match_found = TRUE]

\* one loop of curate_results over the override ids `ids`, from position i:
\*   "untagged"  every override is tried (line 1072)
\*   "exact"     the overrides whose tags equal the request's (line 999)
\*   "partial"   the overrides not found yet that share a tag (line 1035)
\* a matching override with stop_processing ends the loop
RECURSIVE OverrideLoop(_, _, _, _, _)
OverrideLoop(st, ids, i, req, mode) ==
    IF i > Len(ids) THEN st
    ELSE LET id == ids[i]
             o == overrides[id]
             skip == CASE mode = "exact" -> o.tags # req.tags
                       [] mode = "partial" ->
                            id \in st.found_overrides \/ o.tags \cap req.tags = {}
                       [] OTHER -> FALSE
             st1 == DoesOverrideMatch(id, st, req.query, mode # "untagged",
                                      mode = "untagged" /\ o.tags = {"*"})
             st2 == IF st1.match_found /\ mode # "untagged"
                    THEN [st1 EXCEPT !.found_overrides = @ \cup {id}]
                    ELSE st1
         IN IF id \notin DOMAIN overrides \/ skip
            THEN OverrideLoop(st, ids, i + 1, req, mode)
            ELSE IF st2.match_found /\ o.stop_processing
            THEN st2
            ELSE OverrideLoop(st2, ids, i + 1, req, mode)

\* the ids of S in the order of OverrideIdOrder
InIdOrder(S) == SelectSeq(OverrideIdOrder, LAMBDA id : id \in S)

\* the partial-tag pass: for every tag of the request in order, one loop over
\* the overrides of that tag
RECURSIVE PartialTagLoop(_, _, _)
PartialTagLoop(st, j, req) ==
    IF j > Len(TagOrder) THEN st
    ELSE IF TagOrder[j] \notin req.tags
    THEN PartialTagLoop(st, j + 1, req)
    ELSE PartialTagLoop(OverrideLoop(st, InIdOrder(TagIds(TagOrder[j])), 1, req, "partial"),
                        j + 1, req)

\* curate_results: hidden hits, then the overrides, then the pinned hits
CurateOutcome(req) ==
    LET st0 == [NoCuration EXCEPT !.excluded_ids = req.hidden_hits,
                                  !.excluded_set = Range(req.hidden_hits)]
        first_tag == SelectSeq(TagOrder, LAMBDA t : t \in req.tags)[1]
        exact == IF Cardinality(req.tags) > 1
                 THEN OverrideLoop(st0, InIdOrder(TagIds(first_tag)), 1, req, "exact")
                 ELSE st0
        st1 == IF DOMAIN overrides = {} THEN st0
               ELSE IF req.tags = {}
               THEN OverrideLoop(st0, InIdOrder(DOMAIN overrides), 1, req, "untagged")
               ELSE IF exact.found_overrides # {} THEN exact
               ELSE PartialTagLoop(exact, 1, req)
    IN [st1 EXCEPT !.included_ids = @ \o NotExcluded(req.pinned_hits, st1.excluded_set)]

\* a search request runs curate_results
CurateResults(req) ==
    /\ cur_phase = "idle"
    /\ cur_hidden' = req.hidden_hits
    /\ cur' = CurateOutcome(req)
    /\ cur_phase' = "curated"
    /\ UNCHANGED <<overrides, override_tags, override_store>>
    /\ CurateFrame

\* the loop of process_filter_overrides over matched_dynamic_overrides, with
\* its own, initially empty excluded_set
RECURSIVE DynamicOverrideLoop(_, _, _, _)
DynamicOverrideLoop(st, matched, i, excluded_set) ==
    IF i > Len(matched) THEN st
    ELSE LET o == overrides[matched[i]]
             excluded == excluded_set \cup Range(o.drop_hits)
         IN DynamicOverrideLoop(
                [st EXCEPT !.excluded_ids = @ \o o.drop_hits,
                           !.included_ids = @ \o NotExcluded(o.add_hits, excluded)],
                matched, i + 1, excluded)

\* process_filter_overrides: the index picks, among filter_overrides, the
\* entries of the overrides whose dynamic rule matches the query tokens
\* (picked); their drop_hits and add_hits are merged into the id lists
ProcessFilterOverrides(picked) ==
    /\ cur_phase = "curated"
    /\ picked \subseteq Range(cur.filter_overrides)
    /\ cur' = DynamicOverrideLoop(
                  cur, SelectSeq(cur.filter_overrides, LAMBDA id : id \in picked), 1, {})
    /\ cur_phase' = "filtered"
    /\ UNCHANGED <<overrides, override_tags, override_store, cur_hidden>>
    /\ CurateFrame

\* the search request returns
SearchDone ==
    /\ cur_phase = "filtered"
    /\ cur_phase' = "idle"
    /\ cur' = NoCuration
    /\ cur_hidden' = <<>>
    /\ UNCHANGED <<overrides, override_tags, override_store>>
    /\ CurateFrame

(***************************************************************************)
(* An override that is added, then listed, then removed. ov_trip follows   *)
(* the sequence: it keeps the maps and the stored keys as they were before *)
(* the add, and any other call starts it over.                             *)
(***************************************************************************)
\* the overrides a client adds in SpecOverrides: an untagged and a tagged one
TripCatalog ==
    {o \in OverrideCatalog :
        /\ o.tags \in {{}, {"t1"}}
        /\ o.match = "contains" /\ o.add_hits = <<"A">>
        /\ ~o.filter_by /\ ~o.stop_processing}

ListLimits == {0, 1}

ListOffsets == {0, 1}

NoTrip == [phase |-> "none"]

InitTrip ==
    /\ ov_trip = NoTrip
    /\ ov_listing = "none"

\* the state the claim is about
OverrideState ==
    [overrides |-> overrides, override_tags |-> override_tags, store |-> override_store]

\* get_overrides: 400 for an offset at or beyond the end, else the overrides
\* from offset on, `limit` of them when limit > 0 and more would follow
GetOverrides(limit, offset) ==
    LET ids == InIdOrder(DOMAIN overrides)
    IN IF offset > 0 /\ offset >= Len(ids) THEN "invalid_offset"
       ELSE LET last == IF limit > 0 /\ offset + limit < Len(ids)
                        THEN offset + limit ELSE Len(ids)
            IN [i \in 1..(last - offset) |-> ids[offset + i]]

\* add_override called by a client
PostOverride(id, o, inserted) ==
    /\ IF ~inserted
       THEN /\ UNCHANGED <<overrides, override_tags, override_store>>
            /\ ov_trip' = NoTrip
       ELSE /\ overrides' = AddOverrideMaps(overrides, override_tags, id, o).overrides
            /\ override_tags' = AddOverrideMaps(overrides, override_tags, id, o).override_tags
            /\ override_store' = override_store \cup {id}
            /\ ov_trip' = [phase |-> "added", id |-> id, before |-> OverrideState]
    /\ UNCHANGED ov_listing
    /\ TripFrame

\* get_overrides called by a client
ListOverrides(limit, offset) ==
    /\ ov_listing' = GetOverrides(limit, offset)
    /\ ov_trip' = IF ov_trip.phase = "added" THEN [ov_trip EXCEPT !.phase = "listed"]
                  ELSE NoTrip
    /\ UNCHANGED <<overrides, override_tags, override_store>>
    /\ TripFrame

\* remove_override called by a client
DeleteOverride(id, removed) ==
    /\ IF id \in DOMAIN overrides /\ removed
       THEN /\ overrides' = RemoveOverrideMaps(overrides, override_tags, id).overrides
            /\ override_tags' = RemoveOverrideMaps(overrides, override_tags, id).override_tags
            /\ override_store' = override_store \ {id}
            /\ ov_trip' = IF ov_trip.phase = "listed" /\ ov_trip.id = id
                          THEN [ov_trip EXCEPT !.phase = "removed"]
                          ELSE NoTrip
       ELSE /\ UNCHANGED <<overrides, override_tags, override_store>>
            /\ ov_trip' = NoTrip
    /\ UNCHANGED ov_listing
    /\ TripFrame

NextOverrides ==
    \/ \E id \in Range(OverrideIdOrder), o \in TripCatalog, inserted \in BOOLEAN :
         PostOverride(id, o, inserted)
    \/ \E limit \in ListLimits, offset \in ListOffsets : ListOverrides(limit, offset)
    \/ \E id \in Range(OverrideIdOrder), removed \in BOOLEAN : DeleteOverride(id, removed)

NextCurate ==
    \/ \E id \in Range(OverrideIdOrder), o \in OverrideCatalog, inserted \in BOOLEAN :
         AddOverride(id, o, inserted)
    \/ \E id \in Range(OverrideIdOrder), removed \in BOOLEAN : RemoveOverride(id, removed)
    \/ \E req \in CurateRequests : CurateResults(req)
    \/ \E picked \in SUBSET Range(OverrideIdOrder) : ProcessFilterOverrides(picked)
    \/ SearchDone

(***************************************************************************)
(* ----------------------- references ----------------------------------- *)
(* A referenced collection whose documents carry the referenced field G,   *)
(* and referencing collections with one document each, holding a reference *)
(* field to G and its helper field:                                        *)
(*   p1  array field `cats`, optional          p2  array field, required   *)
(*   s1  singular field `cat`, optional        s2  singular, required      *)
(*   a1  array field, async reference          a2  singular, async         *)
(* remove_document on a referenced document calls cascade_remove_docs on   *)
(* every referencing collection; indexing a referenced document calls      *)
(* update_async_references_with_lock on the async referencing ones.        *)
(***************************************************************************)
MaxRefSeqId == 3

\* the values of the referenced field G
RefValues == {"c1", "c2"}

\* Index::reference_helper_sentinel_value: the helper of an unresolved reference
reference_helper_sentinel_value == 0

ArrayDocIds == {"p1", "p2", "a1"}

SingularDocIds == {"s1", "s2", "a2"}

AsyncDocIds == {"a1", "a2"}

\* is_field_optional of the reference field in the collection of each document
RefFieldOptional == [p \in ArrayDocIds \cup SingularDocIds |-> p \in {"p1", "s1"}]

\* what else the document references: decides reference_helper_fields.size() > 1
OtherRefs == {"none", "required", "optional"}

\* the values `cats` may be given: one or two references, repeats allowed
RefArrays == {<<x>> : x \in RefValues} \cup {<<x, y>> : x, y \in RefValues}

InitCascade ==
    /\ ref_docs = <<>>
    /\ ref_next_seq_id = 1
    /\ p_docs = <<>>
    /\ async_result = [a \in AsyncDocIds |-> "none"]

\* the seq_ids of the referenced documents whose field G holds value
SeqIdsOf(value) == {seq \in DOMAIN ref_docs : ref_docs[seq] = value}

\* the helper value an indexed reference gets: the seq_id of the one
\* referenced document holding the value; the sentinel for an async reference
ResolveReference(value, async) ==
    IF async THEN reference_helper_sentinel_value
    ELSE CHOOSE seq \in SeqIdsOf(value) : TRUE

\* a referencing document with an array reference field is indexed (insert,
\* or update of an existing document when is_update): a reference that is
\* not async must resolve to exactly one referenced document
IndexArrayDoc(p, cats, other_refs, is_update) ==
    /\ (p \in DOMAIN p_docs) = is_update
    /\ is_update => other_refs = p_docs[p].other_refs
    /\ p \notin AsyncDocIds => \A v \in Range(cats) : Cardinality(SeqIdsOf(v)) = 1
    /\ p_docs' = Put(p_docs, p,
          [cats |-> cats,
           helper |-> [j \in DOMAIN cats |-> ResolveReference(cats[j], p \in AsyncDocIds)],
           is_null |-> FALSE,
           other_refs |-> other_refs])
    /\ UNCHANGED <<ref_docs, ref_next_seq_id, async_result>>
    /\ CascadeFrame

\* a referencing document with a singular reference field is inserted
InsertSingularDoc(p, value, other_refs) ==
    /\ p \notin DOMAIN p_docs
    /\ p \notin AsyncDocIds => Cardinality(SeqIdsOf(value)) = 1
    /\ p_docs' = Put(p_docs, p,
          [cat |-> value,
           helper |-> ResolveReference(value, p \in AsyncDocIds),
           is_null |-> FALSE,
           other_refs |-> other_refs])
    /\ UNCHANGED <<ref_docs, ref_next_seq_id, async_result>>
    /\ CascadeFrame

\* a cascade that leaves both arrays as they are
KeepAll(cats, other, value) == other

\* the elements of `other` at the positions where cats does not hold value
WithoutValue(cats, other, value) ==
    LET idx == {j \in DOMAIN cats : cats[j] # value}
    IN [k \in 1..Cardinality(idx) |->
          other[CHOOSE j \in idx : Cardinality({x \in idx : x <= j}) = k]]

\* the helper the indexing path gives a reference field updated to null
NullHelper(singular) == IF singular THEN reference_helper_sentinel_value ELSE <<>>

\* a cascade that calls remove_document on every document it finds
AlwaysRemove(d, optional, singular) == [deleted |-> TRUE, doc |-> d]

\* the rule of cascade_remove_docs for a singular reference, also reached at
\* the end of the array branch: the field is set to null when the document
\* has more reference helper fields and the field is optional, else
\* remove_document is called on the document
SingularRule(d, optional, singular) ==
    IF d.other_refs # "none" /\ optional
    THEN [deleted |-> FALSE,
          doc |-> [d EXCEPT !.is_null = TRUE, !.helper = NullHelper(singular)]]
    ELSE [deleted |-> TRUE, doc |-> d]

\* cascade_remove_docs on one document d found by the helper filter, array
\* branch: [deleted |-> TRUE] when remove_document is called on it, else the
\* document after add_many(buffer, UPDATE) has merged the update. An update
\* that carries no helper key (nothing was kept) has the helper resolved
\* from the now empty field.
CascadeArrayDoc(d, value, optional) ==
    IF Len(d.cats) > 1
    THEN IF value \in Range(d.cats)
         THEN [deleted |-> FALSE,
               doc |-> [d EXCEPT !.cats = WithoutValue(d.cats, d.cats, value),
                                 !.helper = WithoutValue(d.cats, d.helper, value)]]
         ELSE [deleted |-> FALSE, doc |-> d]
    ELSE LET out == SingularRule(d, optional, FALSE)
         IN IF out.deleted THEN out
            ELSE [out EXCEPT !.doc.cats = <<>>]

\* the documents get_filter_ids(helper:ref_seq_id) finds
ReferencesSeqId(p, seq) ==
    IF p \in SingularDocIds THEN p_docs[p].helper = seq
    ELSE seq \in Range(p_docs[p].helper)

\* remove_document on the referenced document seq: cascade_remove_docs
\* visits, in every referencing collection, the documents whose helper holds
\* seq, then the document is removed from its own collection
RemoveReferenced(seq) ==
    /\ seq \in DOMAIN ref_docs
    /\ LET hit == {p \in DOMAIN p_docs : ReferencesSeqId(p, seq)}
           out == [p \in hit |->
                     IF p \in SingularDocIds
                     THEN SingularRule(p_docs[p], RefFieldOptional[p], TRUE)
                     ELSE CascadeArrayDoc(p_docs[p], ref_docs[seq], RefFieldOptional[p])]
       IN p_docs' = [p \in {q \in DOMAIN p_docs : q \in hit => ~out[q].deleted} |->
                        IF p \in hit THEN out[p].doc ELSE p_docs[p]]
    /\ ref_docs' = [s \in DOMAIN ref_docs \ {seq} |-> ref_docs[s]]
    /\ UNCHANGED <<ref_next_seq_id, async_result>>
    /\ CascadeFrame

\* a back-fill that takes every helper value for unresolved
NeverResolved(existing_ref_seq_id, ref_seq_id) == FALSE

\* the test of update_async_references_with_lock on an existing helper value
AlreadyResolved(existing_ref_seq_id, ref_seq_id) ==
    /\ existing_ref_seq_id # reference_helper_sentinel_value
    /\ existing_ref_seq_id # ref_seq_id

\* the documents get_filter_ids(field: value) finds
ReferencesValue(p, value) ==
    /\ p \in DOMAIN p_docs
    /\ ~p_docs[p].is_null
    /\ IF p \in SingularDocIds THEN p_docs[p].cat = value
       ELSE value \in Range(p_docs[p].cats)

\* update_async_references_with_lock on the document d its filter found:
\* a 400 when a helper entry to be written is resolved to another seq_id
\* (the buffer is dropped, nothing is written), else the document after
\* add_many(buffer, UPDATE)
UpdateAsyncReferences(d, singular, value, ref_seq_id) ==
    IF singular
    THEN IF AlreadyResolved(d.helper, ref_seq_id)
         THEN [ok |-> FALSE, doc |-> d]
         ELSE [ok |-> TRUE, doc |-> [d EXCEPT !.helper = ref_seq_id]]
    ELSE IF \E j \in DOMAIN d.cats :
               d.cats[j] = value /\ AlreadyResolved(d.helper[j], ref_seq_id)
         THEN [ok |-> FALSE, doc |-> d]
         ELSE [ok |-> TRUE,
               doc |-> [d EXCEPT !.helper = [j \in DOMAIN d.cats |->
                           IF d.cats[j] = value THEN ref_seq_id ELSE d.helper[j]]]]

\* a document with G = value is added to the referenced collection; every
\* async referencing collection then back-fills the helpers of its documents
\* that hold the value
InsertReferenced(value) ==
    /\ ref_next_seq_id <= MaxRefSeqId
    /\ ref_docs' = Put(ref_docs, ref_next_seq_id, value)
    /\ ref_next_seq_id' = ref_next_seq_id + 1
    /\ LET hit == {a \in AsyncDocIds : ReferencesValue(a, value)}
           out == [a \in hit |-> UpdateAsyncReferences(p_docs[a], a \in SingularDocIds,
                                                       value, ref_next_seq_id)]
       IN /\ p_docs' = [p \in DOMAIN p_docs |-> IF p \in hit THEN out[p].doc ELSE p_docs[p]]
          /\ async_result' = [a \in AsyncDocIds |->
                                IF a \in hit /\ ~out[a].ok THEN "error" ELSE "ok"]
    /\ CascadeFrame

NextCascade ==
    \/ \E p \in {"p1", "p2"}, cats \in RefArrays, other_refs \in OtherRefs :
         IndexArrayDoc(p, cats, other_refs, FALSE)
    \/ \E value \in RefValues : InsertReferenced(value)
    \/ \E seq \in 1..MaxRefSeqId : RemoveReferenced(seq)

NextSingular ==
    \/ \E p \in {"s1", "s2"}, value \in RefValues, other_refs \in OtherRefs :
         InsertSingularDoc(p, value, other_refs)
    \/ \E value \in RefValues : InsertReferenced(value)
    \/ \E seq \in 1..MaxRefSeqId : RemoveReferenced(seq)

NextAsync ==
    \/ \E p \in {"a1", "p2"}, cats \in RefArrays, is_update \in BOOLEAN :
         IndexArrayDoc(p, cats, "none", is_update)
    \/ \E value \in RefValues : InsertSingularDoc("a2", value, "none")
    \/ \E value \in RefValues : InsertReferenced(value)
    \/ \E seq \in 1..MaxRefSeqId : RemoveReferenced(seq)

(***************************************************************************)
(* ----------------------- union search --------------------------------- *)
(* do_union runs its sub-searches one after the other on one thread. Each  *)
(* sub-search declares at most one sort_by clause here; the collections    *)
(* have no default sorting field and the queries are not vector queries.   *)
(***************************************************************************)
\* the sort_by names a sub-search may give: two schema fields (int32, string),
\* _text_match and _seq_id
SortNames == {"num", "title", "_text_match", "_seq_id"}

\* what a clause sorts on
SortKind == [n \in SortNames |->
               CASE n = "num" -> "int32_field"
                 [] n = "title" -> "string_field"
                 [] n = "_text_match" -> "text_match"
                 [] n = "_seq_id" -> "insertion_order"]

SortClauses == [name : SortNames, order : {"asc", "desc"}]

\* the sort_by parameter of one sub-search
SortLists == {<<>>} \cup {<<c>> : c \in SortClauses}

\* the union requests: two or three sub-searches
UnionRequests == {<<a, b>> : a, b \in SortLists} \cup
                 {<<a, b, c>> : a, b, c \in {<<>>, <<[name |-> "num", order |-> "desc"]>>}}

InitUnion ==
    /\ u_searches = <<>>
    /\ u_wildcard = FALSE
    /\ u_index = 0
    /\ u_total = 0
    /\ search_cutoff = FALSE
    /\ u_cutoffs = {}
    /\ u_result = "none"

ToUpper(order) == IF order \in {"asc", "ASC"} THEN "ASC" ELSE "DESC"

\* validate_and_standardize_sort_fields on one declared clause: `type` is
\* assigned for schema fields only; for _text_match and _seq_id it keeps
\* the value the sort_by constructor gave it
StandardizeClause(c) ==
    [name |-> c.name,
     order |-> ToUpper(c.order),
     type |-> IF c.name \in {"num", "title"} THEN SortKind[c.name] ELSE "unset"]

TextMatchDesc == [name |-> "_text_match", order |-> "DESC", type |-> "text_match"]

UnionOrderAsc == [name |-> "_union_search_index", order |-> "ASC", type |-> "union_query_order"]

SeqIdDesc == [name |-> "_seq_id", order |-> "DESC", type |-> "insertion_order"]

\* validate_and_standardize_sort_fields with is_union_search: the declared
\* clauses, then the default clauses the code appends
Standardize(sort_fields, is_wildcard_query) ==
    LET declared == [i \in DOMAIN sort_fields |-> StandardizeClause(sort_fields[i])]
        with_default == IF declared = <<>>
                        THEN (IF is_wildcard_query THEN <<>> ELSE <<TextMatchDesc>>)
                             \o <<UnionOrderAsc, SeqIdDesc>>
                        ELSE declared
        found_text_match == \E i \in DOMAIN with_default : with_default[i].name = "_text_match"
        found_union == \E i \in DOMAIN with_default : with_default[i].name = "_union_search_index"
        with_match == IF ~found_text_match /\ ~is_wildcard_query /\ Len(with_default) < 3
                      THEN Append(with_default, TextMatchDesc)
                      ELSE with_default
    IN IF ~found_union /\ Len(with_match) < 2
       THEN with_match \o <<UnionOrderAsc, SeqIdDesc>>
       ELSE with_match

\* the check of do_union on the sub-search at search_index > 0 against the
\* first one: same number of clauses, same type and same order at each
SortFieldsAgree(this_search_sort_fields, first_search_sort_fields) ==
    /\ Len(this_search_sort_fields) = Len(first_search_sort_fields)
    /\ \A i \in DOMAIN first_search_sort_fields :
          /\ this_search_sort_fields[i].type = first_search_sort_fields[i].type
          /\ this_search_sort_fields[i].order = first_search_sort_fields[i].order

\* a union request arrives on the thread
UnionBegin(searches, is_wildcard_query) ==
    /\ u_result # "running"
    /\ u_searches' = searches
    /\ u_wildcard' = is_wildcard_query
    /\ u_index' = 0
    /\ u_total' = 0
    /\ u_cutoffs' = {}
    /\ u_result' = "running"
    /\ UNCHANGED search_cutoff
    /\ UnionFrame

\* one pass of the loop of do_union: init_index_search_args clears the
\* cutoff flag, the search runs (it finds `found` documents and may be cut
\* off), then its sort fields are compared with those of the first search
UnionSearch(found, cut_off) ==
    /\ u_result = "running"
    /\ u_index < Len(u_searches)
    /\ LET search_index == u_index + 1
           this_search_sort_fields == Standardize(u_searches[search_index], u_wildcard)
           first_search_sort_fields == Standardize(u_searches[1], u_wildcard)
       IN /\ search_cutoff' = cut_off   \* search_cutoff = false, then the search
          /\ u_cutoffs' = IF cut_off THEN u_cutoffs \cup {search_index} ELSE u_cutoffs
          /\ u_total' = u_total + found
          /\ u_index' = search_index
          /\ u_result' = IF search_index > 1 /\
                            ~SortFieldsAgree(this_search_sort_fields, first_search_sort_fields)
                         THEN "invalid_argument"
                         ELSE "running"
    /\ UNCHANGED <<u_searches, u_wildcard>>
    /\ UnionFrame

\* after the loop: 408 when the flag is set and nothing was found, else
\* the merged result
UnionMerge ==
    /\ u_result = "running"
    /\ u_index = Len(u_searches)
    /\ u_result' = IF search_cutoff /\ u_total = 0 THEN "request_timeout" ELSE "ok"
    /\ UNCHANGED <<u_searches, u_wildcard, u_index, u_total, search_cutoff, u_cutoffs>>
    /\ UnionFrame

NextUnion ==
    \/ \E searches \in UnionRequests, is_wildcard_query \in BOOLEAN :
         UnionBegin(searches, is_wildcard_query)
    \/ \E found \in {0, 1}, cut_off \in BOOLEAN : UnionSearch(found, cut_off)
    \/ UnionMerge

(***************************************************************************)
(* ----------------------- analytics rules ------------------------------ *)
(* AnalyticsManager::create_rule / create_index, remove_rule /             *)
(* remove_index. create_index checks the name and the destination before   *)
(* it takes the mutex (33-167) and changes the maps under the mutex        *)
(* (169-270). The payloads are well-formed; the collections they name      *)
(* exist.                                                                  *)
(***************************************************************************)
RuleThreads == {"t1", "t2"}

RuleNames == {"r1", "r2"}

\* the rules a client may create: a popular-queries rule from source c1 to
\* destination d1, log rules on c1 (their destination is the source
\* collection, line 86) with one or two events
RuleKinds ==
    { [type |-> "popular_queries", src |-> <<"c1">>, dest |-> "d1", events |-> <<>>],
      [type |-> "log", src |-> <<"c1">>, dest |-> "c1", events |-> <<"e1">>],
      [type |-> "log", src |-> <<"c1">>, dest |-> "c1", events |-> <<"e2", "e1">>] }

NoRules ==
    [suggestion_configs |-> <<>>, query_collection_mapping |-> <<>>,
     popular_queries |-> {}, nohits_queries |-> {}, counter_events |-> {},
     query_collection_events |-> {}, event_collection_map |-> <<>>, store |-> {}]

NoCall == [pc |-> "idle"]

InitRules ==
    /\ rules = NoRules
    /\ rule_call = [t \in RuleThreads |-> NoCall]

\* remove_index (the caller holds the mutex): 404 for an unknown name;
\* otherwise the mapping of every source collection of the rule, the
\* aggregators, the counter entry and the event buffer under the rule's
\* destination, the rule and its events are erased, then the store key
RemoveIndex(r, name, erased) ==
    IF name \notin DOMAIN r.suggestion_configs
    THEN [rules |-> r, code |-> "404"]
    ELSE LET cfg == r.suggestion_configs[name]
             kept_src == DOMAIN r.query_collection_mapping \ Range(cfg.src)
             kept_ev == {e \in DOMAIN r.event_collection_map :
                            r.event_collection_map[e].analytic_rule # name}
         IN [rules |->
               [suggestion_configs |-> Erase(r.suggestion_configs, name),
                query_collection_mapping |->
                    [c \in kept_src |-> r.query_collection_mapping[c]],
                popular_queries |-> r.popular_queries \ {cfg.dest},
                nohits_queries |-> r.nohits_queries \ {cfg.dest},
                counter_events |-> r.counter_events \ {cfg.dest},
                query_collection_events |-> r.query_collection_events \ {cfg.dest},
                event_collection_map |-> [e \in kept_ev |-> r.event_collection_map[e]],
                store |-> IF erased THEN r.store \ {name} ELSE r.store],
             code |-> IF erased THEN "ok" ELSE "500"]

\* the loop of create_index over the events of the payload, from event i on:
\* an event name that is already routed ends the call with 400, else the
\* event is entered in event_collection_map
RECURSIVE RuleEventsLoop(_, _, _, _)
RuleEventsLoop(r, name, kind, i) ==
    IF i > Len(kind.events) THEN [rules |-> r, code |-> "ok"]
    ELSE IF kind.events[i] \in DOMAIN r.event_collection_map
    THEN [rules |-> r, code |-> "400"]
    ELSE RuleEventsLoop(
             [r EXCEPT !.event_collection_map =
                 Put(@, kind.events[i],
                     [analytic_rule |-> name, destination_collection |-> kind.dest,
                      src_collections |-> kind.src])],
             name, kind, i + 1)

\* create_index under the mutex (169-270)
CreateIndexLocked(r, call, erased, inserted) ==
    LET name == call.name
        kind == call.kind
        removed == IF call.already_exists THEN RemoveIndex(r, name, erased)
                   ELSE [rules |-> r, code |-> "ok"]
        r1 == removed.rules
        r2 == [r1 EXCEPT
                 !.query_collection_events = @ \cup {kind.dest} \cup Range(kind.src),
                 !.popular_queries =
                     IF kind.type = "popular_queries" THEN @ \cup {kind.dest} ELSE @,
                 !.nohits_queries =
                     IF kind.type = "nohits_queries" THEN @ \cup {kind.dest} ELSE @]
        looped == RuleEventsLoop(r2, name, kind, 1)
        r3 == looped.rules
        appended(m, c) == Put(m, c, (IF c \in DOMAIN m THEN m[c] ELSE <<>>) \o <<kind.dest>>)
        r4 == [r3 EXCEPT
                 !.suggestion_configs =
                     IF name \in DOMAIN @ THEN @
                     ELSE Put(@, name, [type |-> kind.type, dest |-> kind.dest,
                                        src |-> kind.src, events |-> kind.events]),
                 !.query_collection_mapping = appended(@, kind.src[1])]
    IN IF removed.code # "ok" THEN [rules |-> r1, code |-> "500"]
       ELSE IF looped.code # "ok" THEN [rules |-> r3, code |-> "400"]
       ELSE IF ~inserted THEN [rules |-> r4, code |-> "500"]
       ELSE [rules |-> [r4 EXCEPT !.store = @ \cup {name}], code |-> "ok"]

\* the number of destinations listed for source collection c
MappedTo(c) ==
    IF c \in DOMAIN rules.query_collection_mapping
    THEN Len(rules.query_collection_mapping[c]) ELSE 0

\* create_rule, create_index up to the lock (11-167): the name is looked up,
\* a known name without upsert is refused, and so is a popular-queries
\* destination that already has an aggregator
CreateIndexCheck(t, name, kind, upsert) ==
    /\ rule_call[t].pc = "idle"
    /\ MappedTo(kind.src[1]) + Cardinality({u \in RuleThreads : rule_call[u].pc # "idle"})
           < MaxMapped
    /\ LET already_exists == name \in DOMAIN rules.suggestion_configs
           taken == /\ kind.type = "popular_queries"
                    /\ kind.dest \in rules.popular_queries
       IN IF ~upsert /\ (already_exists \/ taken)
          THEN UNCHANGED rule_call
          ELSE rule_call' = [rule_call EXCEPT ![t] =
                                [pc |-> "locked", name |-> name, kind |-> kind,
                                 upsert |-> upsert, already_exists |-> already_exists]]
    /\ UNCHANGED rules
    /\ RuleFrame

\* create_index from the lock to its return
CreateIndexApply(t, erased, inserted) ==
    /\ rule_call[t].pc = "locked"
    /\ rules' = CreateIndexLocked(rules, rule_call[t], erased, inserted).rules
    /\ rule_call' = [rule_call EXCEPT ![t] = NoCall]
    /\ RuleFrame

\* remove_rule: under the mutex, 404 for an unknown name, else remove_index
RemoveRule(name, erased) ==
    /\ rules' = RemoveIndex(rules, name, erased).rules
    /\ UNCHANGED rule_call
    /\ RuleFrame

NextRules ==
    \/ \E t \in RuleThreads, name \in RuleNames, kind \in RuleKinds, upsert \in BOOLEAN :
         CreateIndexCheck(t, name, kind, upsert)
    \/ \E t \in RuleThreads, erased \in BOOLEAN, inserted \in BOOLEAN :
         CreateIndexApply(t, erased, inserted)
    \/ \E name \in RuleNames, erased \in BOOLEAN : RemoveRule(name, erased)

Init == InitStore /\ InitLock /\ InitAlter /\ InitRate /\ InitCurate /\ InitCascade /\ InitUnion /\ InitFlush
        /\ InitFlag /\ InitTrip /\ InitRules

SpecStore == Init /\ [][NextStore]_vars

SpecLock == Init /\ [][NextLock]_vars

SpecAlter == Init /\ [][NextAlter]_vars

SpecHistory == Init /\ [][NextHistory]_vars

SpecFlag == Init /\ [][NextFlag]_vars

SpecRate == Init /\ [][NextRate]_vars

SpecCurate == Init /\ [][NextCurate]_vars

SpecOverrides == Init /\ [][NextOverrides]_vars

SpecCascade == Init /\ [][NextCascade]_vars

SpecSingular == Init /\ [][NextSingular]_vars

SpecAsync == Init /\ [][NextAsync]_vars

SpecUnion == Init /\ [][NextUnion]_vars

SpecFlush == Init /\ [][NextFlush]_vars

SpecRules == Init /\ [][NextRules]_vars

\* C1: the store holds the doc_id -> seq_id key of a document if and only if it
\* holds that document's seq_id -> document key, at every observable point
C1_BothKeysOrNeither ==
    /\ \A d \in DOMAIN doc_id_keys :
         /\ doc_id_keys[d] \in DOMAIN seq_id_keys
         /\ seq_id_keys[doc_id_keys[d]] = d
    /\ \A s \in DOMAIN seq_id_keys :
         /\ seq_id_keys[s] \in DOMAIN doc_id_keys
         /\ doc_id_keys[seq_id_keys[s]] = s

\* C2: every allocated seq_id is strictly greater than every seq_id allocated
\* before it, so no seq_id is handed out twice, also after a delete or a
\* failed insert and with writers inside get_next_seq_id at the same time
C2_SeqIdStrictlyIncreasing ==
    \A i, j \in DOMAIN allocated : i < j => allocated[i] < allocated[j]

\* C2 witness: two writers hold freshly allocated seq_ids at the same time,
\* and an earlier seq_id belongs to no stored document any more
C2_Witness ==
    /\ \E w1, w2 \in Writers :
         /\ w1 # w2
         /\ w_pc[w1] = "index" /\ ~w_upd[w1]
         /\ w_pc[w2] = "index" /\ ~w_upd[w2]
    /\ Len(allocated) >= 3
    /\ allocated[1] \notin DOMAIN seq_id_keys

\* C3: collection state is written only by a thread that holds the mutex
\* exclusively: whenever a step changes the reference edges, the exclusive
\* side of the mutex is held in the state the step starts from
C3_MutationsHoldExclusive ==
    [][referenced_in' # referenced_in => lk_writer # "none"]_vars

\* C4: an alter request that fails in the validation phase leaves the schema
\* get_schema returns (search_schema) as it was when the request began
C4_ValidationFailureKeepsSchema ==
    a_result = "validation_error" => search_schema = a_before.schema

\* C4 witness: a request failed while validating the stored documents, after
\* the field pass had put a new field in its copy of the schema (the
\* collection was altered successfully before)
C4_Witness ==
    /\ a_result = "validation_error"
    /\ Len(alter_history) >= 2
    /\ alter_history[Len(alter_history) - 1].success
    /\ search_schema # {}

\* C5: an alter request that returned an error has added no field to and
\* removed no field from the schema, and has neither re-indexed nor
\* rewritten a stored document
C5_ErrorSkipsMutation ==
    a_result \in {"validation_error", "mutation_error"} =>
        /\ search_schema = a_before.schema
        /\ index_fields = a_before.index
        /\ stored_docs = a_before.docs

\* the number of events of ip that passed the limiter at a time in [from, to)
AcceptedIn(ip, from, to) ==
    Cardinality({i \in DOMAIN accepted[ip] : from <= accepted[ip][i] /\ accepted[ip][i] < to})

\* C6 as stated, for a positive limit: for every client IP and every
\* 60-second window, wherever it starts, at most analytics_minute_rate_limit
\* events pass the limiter
C6_AnySlidingWindow ==
    analytics_minute_rate_limit >= 1 =>
        \A ip \in ClientIps : \A start \in 0..MaxTime :
            AcceptedIn(ip, start, start + EVENTS_RATE_LIMIT_SEC)
                <= analytics_minute_rate_limit

\* C6 amended: for every client IP, inside the fixed window that starts at
\* the last_update_time of the IP's events_cache record, the number of events
\* that pass the limiter equals the record's count and is at most the limit
\* (at most one when the limit is zero: the event that opens a window is
\* never checked against the limit)
C6_FixedWindowLimit ==
    \A ip \in DOMAIN events_cache :
        LET rec == events_cache[ip]
            in_window == AcceptedIn(ip, rec.last_update_time,
                                    rec.last_update_time + EVENTS_RATE_LIMIT_SEC)
        IN /\ in_window = rec.count
           /\ in_window <= IF analytics_minute_rate_limit = 0 THEN 1
                           ELSE analytics_minute_rate_limit

\* C6 witness: an IP filled a window opened after its first one and had its
\* next event rejected by the limiter
C6_Witness ==
    /\ ev_result.code = "rate_limited"
    /\ ev_result.ip \in DOMAIN events_cache
    /\ events_cache[ev_result.ip].last_update_time >= EVENTS_RATE_LIMIT_SEC
    /\ events_cache[ev_result.ip].count = analytics_minute_rate_limit
    /\ analytics_minute_rate_limit > 1

\* C7: once an override with stop_processing has matched during the curation
\* of a query, no override iterated after it is applied to that query
C7_StopProcessingIsLast ==
    \A i \in DOMAIN cur.applied :
        cur.applied[i].stop_processing => i = Len(cur.applied)

\* C8: a document listed in hidden_hits is in the excluded ids and is never in
\* the included ids, whether through pinned_hits, add_hits or a dynamic
\* filter override
C8_HiddenHitsExcluded ==
    cur_phase # "idle" =>
        \A d \in Range(cur_hidden) :
            /\ d \in Range(cur.excluded_ids)
            /\ d \notin Range(cur.included_ids)

\* C9: a document dropped by a matching override is not in the included ids
\* through the add_hits of a matching override
C9_DropPrecedesAdd ==
    cur.dropped \cap cur.added = {}

\* C10: when a referenced document is deleted, every referencing document
\* whose array reference field holds its value loses the matching elements
\* and the helper entries at the same indexes, the rest keeping order and
\* pairing; when no element would remain, the singular rule applies instead
\* (the document is deleted, or kept with the field set to null when it has
\* other references and the field is optional)
C10_ArrayCascade ==
    [][\A seq \in DOMAIN ref_docs \ DOMAIN ref_docs' : \A p \in DOMAIN p_docs \cap ArrayDocIds :
          ReferencesSeqId(p, seq) =>
             LET c == ref_docs[seq]
             IN IF WithoutValue(p_docs[p].cats, p_docs[p].cats, c) # <<>>
                THEN /\ p \in DOMAIN p_docs'
                     /\ p_docs'[p].cats = WithoutValue(p_docs[p].cats, p_docs[p].cats, c)
                     /\ p_docs'[p].helper = WithoutValue(p_docs[p].cats, p_docs[p].helper, c)
                ELSE IF p_docs[p].other_refs # "none" /\ RefFieldOptional[p]
                THEN p \in DOMAIN p_docs' /\ p_docs'[p].is_null
                ELSE p \notin DOMAIN p_docs']_vars

\* C11: in every stored document, an array reference field and its helper
\* array have the same length, and each resolved helper entry is the seq_id
\* of a stored referenced document holding the value at the same index
C11_HelperPaired ==
    \A p \in DOMAIN p_docs \cap ArrayDocIds :
       /\ Len(p_docs[p].cats) = Len(p_docs[p].helper)
       /\ \A j \in DOMAIN p_docs[p].helper :
             \/ p_docs[p].helper[j] = reference_helper_sentinel_value
             \/ /\ p_docs[p].helper[j] \in DOMAIN ref_docs
                /\ ref_docs[p_docs[p].helper[j]] = p_docs[p].cats[j]

\* a back-filled async array reference next to a sync one, after a referenced
\* document has been deleted
C11_Witness ==
    /\ Cardinality(DOMAIN ref_docs) < ref_next_seq_id - 1
    /\ {"a1", "p2"} \subseteq DOMAIN p_docs
    /\ Len(p_docs["a1"].cats) = 2
    /\ \E j \in DOMAIN p_docs["a1"].helper :
          p_docs["a1"].helper[j] # reference_helper_sentinel_value

\* C12 (as stated): when a referenced document is deleted, a document that
\* references it through a singular field is deleted, unless other optional
\* references remain in it: then it is kept with the field set to null
C12_SingularAsClaimed ==
    [][\A seq \in DOMAIN ref_docs \ DOMAIN ref_docs' : \A p \in DOMAIN p_docs \cap SingularDocIds :
          ReferencesSeqId(p, seq) =>
             IF p_docs[p].other_refs = "optional"
             THEN p \in DOMAIN p_docs' /\ p_docs'[p].is_null
             ELSE p \notin DOMAIN p_docs']_vars

\* C12 (amended): the document is deleted, unless the reference field itself
\* is optional and the document has further reference helper fields (of
\* whatever kind): then it is kept with the field set to null
C12_SingularRule ==
    [][\A seq \in DOMAIN ref_docs \ DOMAIN ref_docs' : \A p \in DOMAIN p_docs \cap SingularDocIds :
          ReferencesSeqId(p, seq) =>
             IF p_docs[p].other_refs # "none" /\ RefFieldOptional[p]
             THEN /\ p \in DOMAIN p_docs'
                  /\ p_docs'[p].is_null
                  /\ p_docs'[p].cat = p_docs[p].cat
             ELSE p \notin DOMAIN p_docs']_vars

\* the optional singular reference of s1 has been nulled by a cascade that
\* deleted s2
C12_Witness ==
    /\ DOMAIN p_docs = {"s1"}
    /\ p_docs["s1"].is_null
    /\ p_docs["s1"].other_refs = "required"
    /\ ref_docs = <<>>
    /\ ref_next_seq_id = 2

\* C13: the back-fill run when a referenced document is inserted returns an
\* error, and writes nothing, whenever a helper entry it would write is
\* already resolved to another seq_id; in an array reference it leaves the
\* field and every helper entry at an index holding another value as it was
C13_BackFillGuarded ==
    [][ref_next_seq_id' # ref_next_seq_id =>
          LET seq == ref_next_seq_id
              value == ref_docs'[seq]
          IN \A a \in AsyncDocIds :
                ReferencesValue(a, value) =>
                   LET d == p_docs[a]
                   IN IF a \in SingularDocIds
                      THEN d.helper \notin {reference_helper_sentinel_value, seq} =>
                              async_result'[a] = "error" /\ p_docs'[a] = d
                      ELSE /\ (\E j \in DOMAIN d.cats :
                                  /\ d.cats[j] = value
                                  /\ d.helper[j] \notin {reference_helper_sentinel_value, seq}) =>
                                 async_result'[a] = "error" /\ p_docs'[a] = d
                           /\ p_docs'[a].cats = d.cats
                           /\ \A j \in DOMAIN d.cats :
                                 d.cats[j] # value => p_docs'[a].helper[j] = d.helper[j]]_vars

\* a back-fill of a1 was rejected: its first entry is resolved, its second,
\* holding another value, still unresolved
C13_Witness ==
    /\ async_result["a1"] = "error"
    /\ "a1" \in DOMAIN p_docs
    /\ Len(p_docs["a1"].cats) = 2
    /\ p_docs["a1"].cats[1] # p_docs["a1"].cats[2]
    /\ p_docs["a1"].helper[1] # reference_helper_sentinel_value
    /\ p_docs["a1"].helper[2] = reference_helper_sentinel_value

\* what the declared clauses of a sub-search sort on, with their direction
DeclaredSort(sort_fields) ==
    [i \in DOMAIN sort_fields |-> <<SortKind[sort_fields[i].name], ToUpper(sort_fields[i].order)>>]

\* C14: a union whose sub-searches differ in the number of sort clauses, or
\* at some position in sort type or direction, returns InvalidArgument and
\* never a merged result
C14_SortMismatchRejected ==
    (/\ u_result \notin {"none", "running"}
     /\ \E i, j \in DOMAIN u_searches :
           DeclaredSort(u_searches[i]) # DeclaredSort(u_searches[j]))
       => u_result = "invalid_argument"

\* C15: a union that found nothing and in which some sub-search, whatever its
\* position, was cut off returns 408
C15_CutoffSticks ==
    (u_result \in {"ok", "request_timeout"} /\ u_total = 0 /\ u_cutoffs # {})
       => u_result = "request_timeout"

\* C19: with analytics_minute_rate_limit = 3 and events of one client IP
\* that had sent none before: a fourth event is not accepted within 60
\* seconds of the first (so not within 30), an event is rejected only after
\* three were accepted, and once 60 seconds have passed since the first the
\* next event is accepted again
C19_LimitThreeScenario ==
    [][analytics_minute_rate_limit = 3 =>
          \A ip \in ClientIps :
             /\ (Len(accepted[ip]) = 3 /\ Len(accepted'[ip]) = 4) =>
                   now_ts_seconds - accepted[ip][1] >= EVENTS_RATE_LIMIT_SEC
             /\ (ev_result' # ev_result /\ ev_result'.ip = ip /\ ev_result'.code = "rate_limited") =>
                   /\ Len(accepted[ip]) >= 3
                   /\ Len(accepted[ip]) = 3 =>
                         now_ts_seconds - accepted[ip][1] < EVENTS_RATE_LIMIT_SEC]_vars

\* three events of ip1 were accepted and a fourth, within 30 seconds of the
\* first, has just been rejected
C19_Witness ==
    /\ analytics_minute_rate_limit = 3
    /\ Len(accepted["ip1"]) = 3
    /\ now_ts_seconds - accepted["ip1"][1] <= 30
    /\ ev_result = [ip |-> "ip1", code |-> "rate_limited"]

\* C16: once stop() has set quit the background loop starts no further
\* flush, and when stop() has returned every analytics map is empty and the
\* aggregators are released
C16_StopQuiesces ==
    [][/\ (run_pc = "checked" /\ run_pc' = "flushing") => ~quit
       /\ stop_pc' = "done" =>
             /\ query_collection_events' = <<>>
             /\ an_maps' = {}
             /\ events_cache' = <<>>]_vars

\* C17: the flush clears the buffer of a collection only when a POST that
\* carried its events was answered with success
C17_ClearedOnlyAfterPost ==
    [][(run_pc = "flushing" /\ run_pc' = "loop") =>
          \A c \in DOMAIN query_collection_events :
             (query_collection_events[c] # <<>> /\ query_collection_events'[c] = <<>>) =>
                \E i \in DOMAIN an_posts' :
                   /\ an_posts'[i].status = "ok"
                   /\ \A j \in DOMAIN query_collection_events[c] :
                         \E k \in DOMAIN an_posts'[i].payload :
                            an_posts'[i].payload[k] =
                               [collection |-> c, id |-> query_collection_events[c][j]]]_vars

\* the events of collection c in a payload, in payload order
EventsOf(payload, c) == SelectSeq(payload, LAMBDA ev : ev.collection = c)

\* C18: the events of a collection sit in its buffer in arrival order, and
\* every payload the flush sends holds the events of each collection in
\* arrival order
C18_ArrivalOrder ==
    /\ \A c \in DOMAIN query_collection_events :
          \A i, j \in DOMAIN query_collection_events[c] :
             i < j => query_collection_events[c][i] < query_collection_events[c][j]
    /\ \A p \in DOMAIN an_posts : \A c \in SrcCollections :
          \A i, j \in DOMAIN EventsOf(an_posts[p].payload, c) :
             i < j => EventsOf(an_posts[p].payload, c)[i].id < EventsOf(an_posts[p].payload, c)[j].id

\* a flush has posted two events of one collection
C18_Witness ==
    \E p \in DOMAIN an_posts : Len(EventsOf(an_posts[p].payload, "c1")) = 2

\* C20: when a request gives override_tags and no override stops the
\* processing, the overrides applied are those whose tag set equals the given
\* tags and whose rule matches the query, in rule order, followed by the
\* matching overrides tagged with the wildcard "*"; untagged overrides are
\* not applied
C20_TaggedThenWildcard ==
    [][\A req \in CurateRequests :
          (/\ req.tags # {}
           /\ \A id \in DOMAIN overrides : ~overrides[id].stop_processing
           /\ CurateResults(req)) =>
             LET rule_matches(id) ==
                     \/ overrides[id].match = "exact" /\ overrides[id].query = req.query
                     \/ overrides[id].match = "contains" /\ overrides[id].query \subseteq req.query
                 tagged(T) ==
                     SelectSeq(OverrideIdOrder,
                               LAMBDA id : /\ id \in DOMAIN overrides
                                           /\ overrides[id].tags = T
                                           /\ rule_matches(id))
             IN [i \in DOMAIN cur'.applied |-> cur'.applied[i].id]
                    = tagged(req.tags) \o tagged({"*"})]_vars

\* C21: in the mutation phase of an alter the purge of the deleted fields
\* comes after the field additions and after the re-index modifications: when
\* the deleted fields leave the schema, no re-index modification of the
\* request is still to be applied
C21_PurgeComesLast ==
    [][(a_pc = "batch_purge" /\ a_pc' = "batch_persist" /\ a_fields.del # <<>> /\ ~a_second)
          => a_fields.reindex = <<>>]_vars

\* C29: the validation phase of an alter writes no member state: an alter
\* that fails validation leaves the embedding-field map as it was
C29_ValidationWritesNoMember ==
    [][(a_pc = "validate" /\ a_result' = "validation_error")
          => embedding_fields' = embedding_fields]_vars

\* C30: when a batch of documents is re-indexed by an alter that drops
\* fields, the index entries of every dropped field are removed for every
\* stored document of the batch
C30_DroppedEntriesRemoved ==
    [][(a_pc = "batch_reindex" /\ a_pc' = "batch_purge" /\ ~a_second)
          => \A s \in DOMAIN stored_docs : \A n \in Range(a_fields.del) :
                 <<s, n>> \notin index_fields']_vars

\* C22: the alter history never holds more than ALTER_STATUS_MSG_COUNT
\* entries; its entries are the most recent recorded attempts, without a gap
\* and in chronological order, and the newest entry carries the outcome of
\* the request that returned last
C22_HistoryBounded ==
    /\ Len(alter_history) <= ALTER_STATUS_MSG_COUNT
    /\ \A i \in DOMAIN alter_history :
          alter_history[i].timestamp =
              AlterClock(alter_history) - Len(alter_history) + i
    /\ (a_pc = "idle" /\ a_result # "none") =>
          alter_history[Len(alter_history)].success = (a_result = "ok")

\* C22 witness: more requests were recorded than the history holds, failed
\* and successful ones among those kept
C22_Witness ==
    /\ AlterClock(alter_history) > ALTER_STATUS_MSG_COUNT
    /\ alter_history[1].timestamp = 2
    /\ \E i, j \in DOMAIN alter_history :
          alter_history[i].success /\ ~alter_history[j].success

\* C24: alter_in_progress is true as long as an alter request is executing,
\* whatever other alter requests on the collection start, fail or finish
\* meanwhile, and false once no alter request is executing
C24_FlagCoversExecution ==
    alter_in_progress = (\E t \in AlterThreads : alt_pc[t] # "idle")

\* C28: in one run of the event flush every buffered event is sent in one
\* POST payload only: no event occurs twice among the payloads of the flush
C28_EachEventSentOnce ==
    \A p, q \in DOMAIN an_posts :
       \A k \in DOMAIN an_posts[p].payload : \A l \in DOMAIN an_posts[q].payload :
          an_posts[p].payload[k] = an_posts[q].payload[l] => (p = q /\ k = l)

\* C23: after an override was added, the overrides were listed and that
\* override was removed, the override map, the tag-to-override index and the
\* stored override keys are what they were before the add
C23_AddListRemoveIdentity ==
    ov_trip.phase = "removed" => OverrideState = ov_trip.before

\* the maps of the analytics manager, without the rule keys of the store
InMemory(r) == [r EXCEPT !.store = {}]

\* C25: a create_rule call that returns an error leaves the maps of the
\* analytics manager as they were when the call took the mutex: nothing the
\* call created remains, and the rule an upsert replaces is still present
C25_FailedCreateLeavesState ==
    [][\A t \in RuleThreads : \A erased, inserted \in BOOLEAN :
          (/\ CreateIndexApply(t, erased, inserted)
           /\ CreateIndexLocked(rules, rule_call[t], erased, inserted).code # "ok")
             => InMemory(rules') = InMemory(rules)]_vars

\* what belongs to the configured rule n: the mapping from its sources to
\* its destination, its aggregator, its buffers and the routing of its
\* events
OwnState(r, n) ==
    LET cfg == r.suggestion_configs[n]
    IN [mapping |-> {c \in Range(cfg.src) :
                        /\ c \in DOMAIN r.query_collection_mapping
                        /\ cfg.dest \in Range(r.query_collection_mapping[c])},
        aggregator |-> cfg.type = "popular_queries" => cfg.dest \in r.popular_queries,
        buffers |-> (Range(cfg.src) \cup {cfg.dest}) \cap r.query_collection_events,
        routing |-> {e \in Range(cfg.events) :
                        /\ e \in DOMAIN r.event_collection_map
                        /\ r.event_collection_map[e].analytic_rule = n}]

\* C26: removing a rule leaves what belongs to every other configured rule
\* as it was, also for a rule that shares a source or destination
\* collection with the removed one
C26_RemovalTouchesOwnStateOnly ==
    [][\A name \in RuleNames : \A erased \in BOOLEAN :
          (name \in DOMAIN rules.suggestion_configs /\ RemoveRule(name, erased))
             => \A other \in DOMAIN rules'.suggestion_configs :
                   OwnState(rules', other) = OwnState(rules, other)]_vars

\* C27: a create_rule call without upsert succeeds only when no rule of its
\* name exists at the moment it enters the rule: of two such calls for one
\* new name, the second to take the mutex is refused
C27_CheckAndInsertAtomic ==
    [][\A t \in RuleThreads : \A erased, inserted \in BOOLEAN :
          (/\ CreateIndexApply(t, erased, inserted)
           /\ ~rule_call[t].upsert
           /\ CreateIndexLocked(rules, rule_call[t], erased, inserted).code = "ok")
             => rule_call[t].name \notin DOMAIN rules.suggestion_configs]_vars

=============================================================================
